---- MODULE Spec2Model ----
(***************************************************************************)
(* Hybrid enrichment and similarity retrieval of the ERP incident triage   *)
(* backend: the in-memory Similarity Index (vector_repository.py), the     *)
(* Incident Store it reads (mock_incident_repository.py /                  *)
(* incident_repository.py), the Rule Classifier (enrichment_service.py)    *)
(* and the RAG enrichment orchestrator (rag_enrichment_service.py).        *)
(*                                                                         *)
(* Conventions of the model                                                *)
(*  - An Optional value is a sequence of length at most one: Nothing is   *)
(*    Python None and Some(x) is x; a dict is a function on its keys; an   *)
(*    absent suggested_action is the string "None".                        *)
(*  - Incident ids are 1, 2, ... in creation order; created_at is strictly *)
(*    increasing in creation order, so it is represented by the id.        *)
(*  - Time is counted in whole minutes.                                    *)
(*  - A cosine similarity s is represented by the integer 100 * s.         *)
(*  - Text is a sequence of one-character strings.                         *)
(***************************************************************************)
EXTENDS Integers, Sequences, FiniteSets, TLC

VARIABLES
    storage,                    \* MockIncidentRepository._storage, a sequence indexed by id
    embeddings,                 \* InMemoryVectorRepository._embeddings
    resolved_incidents_cache,   \* InMemoryVectorRepository._resolved_incidents_cache
    cache_timestamp,            \* InMemoryVectorRepository._cache_timestamp
    llm_client,                 \* RAGEnrichmentService.llm_client is set (TRUE) or None
    rag_force_all,              \* settings.rag_force_all
    now,                        \* the wall clock read by datetime.now()
    last,                       \* the most recent call and what it returned
    hist,                       \* history: last capture, mutations since, resolution times
    threads,                    \* per caller of the index, the frame of its call in progress
    lineage                     \* history of the list held in the cache field

vars == <<storage, embeddings, resolved_incidents_cache, cache_timestamp,
          llm_client, rag_force_all, now, last, hist, threads, lineage>>

None == "None"
Nothing == <<>>
Some(x) == <<x>>
Get(o) == o[1]

----------------------------------------------------------------------------
(* Bounds of the model *)

MaxCandidates == 3     \* incidents of a store drawn for one ranking
MaxStored == 2         \* incidents the store may come to hold
MaxTime == 6           \* horizon of the clock, in minutes
MaxNeighbors == 4      \* neighbors of a list drawn for one classification
MaxPhrases == 2        \* phrases of an incident description drawn for the rules
MaxTrialStored == 1    \* incidents of the store under a timed classification

(* Program constants *)

CacheTTL == 5                   \* _cache_ttl = timedelta(minutes=5)
min_similarity == 70            \* min_similarity = 0.7
rag_max_similar_incidents == 5  \* settings.rag_max_similar_incidents
min_description_length == 50    \* len(incident.description) < 50

Min(a, b) == IF a <= b THEN a ELSE b

\* a function on 1..n as the sequence of its values
Seq1(f) == SubSeq(f, 1, Len(f))

----------------------------------------------------------------------------
(* app/models/incident.py *)

Severity == {"P1", "P2", "P3"}
Category == {"Configuration Issue", "Data Issue", "Integration Failure",
             "Security / Access", "Unknown"}
IncidentStatus == {"open", "in_progress", "resolved", "closed"}

----------------------------------------------------------------------------
(* Embedding vectors and cosine similarity *)

Vecs == {<<10, 0, 0, 0>>, <<8, 6, 0, 0>>, <<7, 1, 1, 7>>}
Queries == {<<10, 0, 0, 0>>, <<3, 4, 0, 0>>}

Dot(a, b) == a[1] * b[1] + a[2] * b[2] + a[3] * b[3] + a[4] * b[4]

\* the Euclidean norm of each vector in use, an integer by choice of the vectors
Norms == [a \in Vecs \cup Queries |-> CHOOSE n \in 0..10 : n * n = Dot(a, a)] @@ <<>>

Norm(a) == Norms[a]

\* sklearn cosine_similarity of two vectors, in hundredths
cosine_similarity(a, b) == (Dot(a, b) * 100) \div (Norm(a) * Norm(b))

----------------------------------------------------------------------------
(* Incident Store *)

\* the incident_data the store is handed for the id-th incident
IncidentData(id) ==
    [id |-> id,
     status |-> "open",
     severity |-> IF id % 2 = 1 THEN "P2" ELSE "P1",
     category |-> IF id % 2 = 1 THEN "Integration Failure" ELSE "Data Issue",
     suggested_action |-> IF id % 3 = 0 THEN None
                          ELSE IF id % 2 = 1 THEN "Check integration logs"
                          ELSE "Investigate data integrity"]

\* MockIncidentRepository.create
repo_create(st, data) == Append(st, data)

\* MockIncidentRepository.update: None when the id is unknown
repo_update(st, id, status) ==
    IF id \notin DOMAIN st THEN st
    ELSE [st EXCEPT ![id].status = status]

RECURSIVE ListDesc(_, _, _)
ListDesc(st, status, i) ==
    IF i = 0 THEN <<>>
    ELSE (IF st[i].status = status THEN <<st[i]>> ELSE <<>>)
         \o ListDesc(st, status, i - 1)

\* list_all without the status filter of lines 45-46
list_all_AnyStatus(st, status) ==
    LET all == [i \in 1..Len(st) |-> st[Len(st) + 1 - i]]
    IN  SubSeq(all, 1, Min(Len(all), 10000))

\* list_all(limit=10000, status=...): matching incidents, newest first
list_all(st, status) ==
    LET all == ListDesc(st, status, Len(st))
    IN  SubSeq(all, 1, Min(Len(all), 10000))

----------------------------------------------------------------------------
(* Similarity Index: InMemoryVectorRepository *)

\* incident_id in self._embeddings
HasEmbedding(emb, id) == id \in DOMAIN emb

\* add_embedding that leaves the vector of an id it already holds in place
add_embedding_KeepFirst(emb, id, vec) ==
    [x \in DOMAIN emb \cup {id} |-> IF x \in DOMAIN emb THEN emb[x] ELSE vec]

\* add_embedding: store the vector (and its metadata), drop the cache
add_embedding(emb, id, vec) ==
    [x \in DOMAIN emb \cup {id} |-> IF x = id THEN vec ELSE emb[x]]

\* remove_embedding that leaves the vector in place
remove_embedding_Keep(emb, id) == emb

\* remove_embedding: pop the vector (and its metadata), drop the cache
remove_embedding(emb, id) == [x \in DOMAIN emb \ {id} |-> emb[x]]

\* get_embedding: self._embeddings.get(incident_id)
get_embedding(emb, id) == IF id \in DOMAIN emb THEN Some(emb[id]) ELSE Nothing

\* the cache check without the age test of line 101
CacheIsFresh_NoTTL(cache, ts, t) == cache # Nothing /\ ts # Nothing

\* the cache check with an age limit twice that of line 101
CacheIsFresh_DoubleTTL(cache, ts, t) ==
    cache # Nothing /\ ts # Nothing /\ t - Get(ts) < 2 * CacheTTL

\* the cache check of _get_resolved_incidents
CacheIsFresh(cache, ts, t) ==
    cache # Nothing /\ ts # Nothing /\ t - Get(ts) < CacheTTL

\* _get_resolved_incidents at time t; storeOk is whether list_all answers.
\* Yields the candidates and the cache fields as the call leaves them.
get_resolved_incidents(st, emb, cache, ts, t, storeOk) ==
    IF CacheIsFresh(cache, ts, t)
    THEN [raised |-> FALSE, candidates |-> Get(cache), cache |-> cache, ts |-> ts,
          queried |-> FALSE]
    ELSE IF ~storeOk
    THEN [raised |-> TRUE, candidates |-> <<>>, cache |-> cache, ts |-> ts,
          queried |-> TRUE]
    ELSE LET resolved == list_all(st, "resolved")
             incidents_with_embeddings ==
                 SelectSeq(resolved, LAMBDA inc : HasEmbedding(emb, inc.id))
         IN  [raised |-> FALSE, candidates |-> incidents_with_embeddings,
              cache |-> Some(incidents_with_embeddings), ts |-> Some(t),
              queried |-> TRUE]

\* candidates of find_similar for a status filter (lines 140-151)
\* the candidates taken from the resolved list whatever the status filter of
\* line 139
get_candidates_AlwaysResolved(st, emb, cache, ts, t, storeOk, status) ==
    get_resolved_incidents(st, emb, cache, ts, t, storeOk)

\* the branch of lines 143-151 keeping its list in the cache fields
get_candidates_CacheAll(st, emb, cache, ts, t, storeOk, status) ==
    IF status = "resolved"
    THEN get_resolved_incidents(st, emb, cache, ts, t, storeOk)
    ELSE IF ~storeOk
    THEN [raised |-> TRUE, candidates |-> <<>>, cache |-> cache, ts |-> ts,
          queried |-> TRUE]
    ELSE LET fetched == SelectSeq(list_all(st, status),
                                  LAMBDA inc : HasEmbedding(emb, inc.id))
         IN  [raised |-> FALSE, candidates |-> fetched,
              cache |-> Some(fetched), ts |-> Some(t), queried |-> TRUE]

get_candidates(st, emb, cache, ts, t, storeOk, status) ==
    IF status = "resolved"
    THEN get_resolved_incidents(st, emb, cache, ts, t, storeOk)
    ELSE IF ~storeOk
    THEN [raised |-> TRUE, candidates |-> <<>>, cache |-> cache, ts |-> ts,
          queried |-> TRUE]
    ELSE [raised |-> FALSE,
          candidates |-> SelectSeq(list_all(st, status),
                                   LAMBDA inc : HasEmbedding(emb, inc.id)),
          cache |-> cache, ts |-> ts, queried |-> TRUE]

Perms(n) == {p \in [1..n -> 1..n] : \A i, j \in 1..n : i # j => p[i] # p[j]}

\* np.argsort(similarities): the default sort kind is not stable, so every
\* ascending arrangement of the indices is a possible outcome
argsort(sims) ==
    {p \in Perms(Len(sims)) :
        \A i, j \in 1..Len(sims) : i < j => sims[p[i]] <= sims[p[j]]}

\* [::-1]
Reversed(s) == Seq1([i \in 1..Len(s) |-> s[Len(s) + 1 - i]])

\* the threshold loop with an exclusive threshold
RECURSIVE Collect_Strict(_, _, _, _, _)
Collect_Strict(order, incs, sims, limit, results) ==
    IF order = <<>> THEN results
    ELSE LET idx == Head(order)
         IN  Collect_Strict(Tail(order), incs, sims, limit,
                     IF sims[idx] > min_similarity /\ Len(results) < limit
                     THEN Append(results, [incident |-> incs[idx], score |-> sims[idx]])
                     ELSE results)

\* the threshold loop (lines 177-183)
RECURSIVE Collect(_, _, _, _, _)
Collect(order, incs, sims, limit, results) ==
    IF order = <<>> THEN results
    ELSE LET idx == Head(order)
         IN  Collect(Tail(order), incs, sims, limit,
                     IF sims[idx] >= min_similarity /\ Len(results) < limit
                     THEN Append(results, [incident |-> incs[idx], score |-> sims[idx]])
                     ELSE results)

\* lines 153-185 of find_similar: the possible result lists for a candidate list
rank(candidates, emb, query, limit) ==
    LET candidate_incidents ==
            SelectSeq(candidates, LAMBDA inc : HasEmbedding(emb, inc.id))
        similarities ==
            Seq1([i \in 1..Len(candidate_incidents) |->
                    cosine_similarity(query, emb[candidate_incidents[i].id])])
    IN  IF candidates = <<>> \/ candidate_incidents = <<>> THEN {<<>>}
        ELSE {Collect(Reversed(p), candidate_incidents, similarities, limit, <<>>) :
                p \in argsort(similarities)}

\* find_similar: the possible outcomes of one call at time t
find_similar(st, emb, cache, ts, t, storeOk, query, limit, status) ==
    LET c == get_candidates(st, emb, cache, ts, t, storeOk, status)
    IN  IF c.raised
        THEN {[raised |-> TRUE, results |-> <<>>, candidates |-> <<>>,
               cache |-> c.cache, ts |-> c.ts, queried |-> c.queried]}
        ELSE {[raised |-> FALSE, results |-> r, candidates |-> c.candidates,
               cache |-> c.cache, ts |-> c.ts, queried |-> c.queried] :
                r \in rank(c.candidates, emb, query, limit)}

----------------------------------------------------------------------------
(* Rule Classifier: EnrichmentService *)

\* EnrichmentService.P1_KEYWORDS
P1_KEYWORDS ==
    <<
     <<"c", "r", "i", "t", "i", "c", "a", "l">>,
     <<"d", "o", "w", "n">>,
     <<"o", "u", "t", "a", "g", "e">>,
     <<"s", "t", "u", "c", "k">>,
     <<"b", "l", "o", "c", "k", "e", "d">>,
     <<"c", "a", "n", "n", "o", "t", " ", "p", "r", "o", "c", "e", "s", "s">>,
     <<"c", "o", "m", "p", "l", "e", "t", "e", " ", "f", "a", "i", "l", "u", "r", "e">>,
     <<"s", "y", "s", "t", "e", "m", " ", "d", "o", "w", "n">>,
     <<"n", "o", "t", " ", "w", "o", "r", "k", "i", "n", "g">>,
     <<"b", "r", "o", "k", "e", "n">>,
     <<"u", "r", "g", "e", "n", "t">>,
     <<"e", "m", "e", "r", "g", "e", "n", "c", "y">>,
     <<"p", "r", "o", "d", "u", "c", "t", "i", "o", "n", " ", "d", "o", "w", "n">>,
     <<"a", "l", "l", " ", "u", "s", "e", "r", "s", " ", "a", "f", "f", "e", "c", "t", "e", "d">>
    >>

\* EnrichmentService.P2_KEYWORDS
P2_KEYWORDS ==
    <<
     <<"s", "l", "o", "w">>,
     <<"d", "e", "l", "a", "y">>,
     <<"p", "e", "r", "f", "o", "r", "m", "a", "n", "c", "e">>,
     <<"l", "a", "g", "g", "i", "n", "g">>,
     <<"t", "i", "m", "e", "o", "u", "t">>,
     <<"i", "n", "t", "e", "r", "m", "i", "t", "t", "e", "n", "t">>,
     <<"s", "o", "m", "e", " ", "u", "s", "e", "r", "s">>,
     <<"d", "e", "g", "r", "a", "d", "e", "d">>,
     <<"p", "a", "r", "t", "i", "a", "l">>,
     <<"r", "e", "d", "u", "c", "e", "d", " ", "f", "u", "n", "c", "t", "i", "o", "n", "a", "l", "i", "t", "y">>
    >>

\* EnrichmentService.CATEGORY_KEYWORDS, in the dict's insertion order
CATEGORY_KEYWORDS ==
    <<
     [category |-> "Integration Failure",
      keywords |-> <<
       <<"i", "n", "t", "e", "g", "r", "a", "t", "i", "o", "n">>,
       <<"a", "p", "i">>,
       <<"w", "e", "b", "h", "o", "o", "k">>,
       <<"c", "o", "n", "n", "e", "c", "t", "i", "o", "n">>,
       <<"s", "y", "n", "c">>,
       <<"i", "m", "p", "o", "r", "t">>,
       <<"e", "x", "p", "o", "r", "t">>,
       <<"i", "n", "t", "e", "r", "f", "a", "c", "e">>,
       <<"e", "n", "d", "p", "o", "i", "n", "t">>,
       <<"s", "e", "r", "v", "i", "c", "e">>,
       <<"e", "x", "t", "e", "r", "n", "a", "l", " ", "s", "y", "s", "t", "e", "m">>
      >>],
     [category |-> "Security / Access",
      keywords |-> <<
       <<"a", "c", "c", "e", "s", "s">>,
       <<"p", "e", "r", "m", "i", "s", "s", "i", "o", "n">>,
       <<"a", "u", "t", "h", "e", "n", "t", "i", "c", "a", "t", "i", "o", "n">>,
       <<"a", "u", "t", "h", "o", "r", "i", "z", "a", "t", "i", "o", "n">>,
       <<"l", "o", "g", "i", "n">>,
       <<"p", "a", "s", "s", "w", "o", "r", "d">>,
       <<"c", "r", "e", "d", "e", "n", "t", "i", "a", "l">>,
       <<"s", "e", "c", "u", "r", "i", "t", "y">>,
       <<"u", "n", "a", "u", "t", "h", "o", "r", "i", "z", "e", "d">>,
       <<"f", "o", "r", "b", "i", "d", "d", "e", "n">>,
       <<"u", "s", "e", "r", " ", "c", "a", "n", "n", "o", "t">>,
       <<"l", "o", "c", "k", "e", "d", " ", "o", "u", "t">>,
       <<"a", "c", "c", "e", "s", "s", " ", "d", "e", "n", "i", "e", "d">>
      >>],
     [category |-> "Data Issue",
      keywords |-> <<
       <<"d", "a", "t", "a">>,
       <<"d", "u", "p", "l", "i", "c", "a", "t", "e">>,
       <<"m", "i", "s", "s", "i", "n", "g">>,
       <<"i", "n", "c", "o", "r", "r", "e", "c", "t">>,
       <<"w", "r", "o", "n", "g">>,
       <<"c", "o", "r", "r", "u", "p", "t">>,
       <<"i", "n", "v", "a", "l", "i", "d">>,
       <<"e", "r", "r", "o", "r", " ", "i", "n", " ", "d", "a", "t", "a">>,
       <<"d", "a", "t", "a", " ", "m", "i", "s", "m", "a", "t", "c", "h">>,
       <<"r", "e", "c", "o", "r", "d">>,
       <<"t", "r", "a", "n", "s", "a", "c", "t", "i", "o", "n">>
      >>],
     [category |-> "Configuration Issue",
      keywords |-> <<
       <<"c", "o", "n", "f", "i", "g", "u", "r", "a", "t", "i", "o", "n">>,
       <<"c", "o", "n", "f", "i", "g">>,
       <<"s", "e", "t", "t", "i", "n", "g">>,
       <<"s", "e", "t", "u", "p">>,
       <<"p", "a", "r", "a", "m", "e", "t", "e", "r">>,
       <<"m", "i", "s", "c", "o", "n", "f", "i", "g", "u", "r", "e", "d">>,
       <<"w", "r", "o", "n", "g", " ", "s", "e", "t", "t", "i", "n", "g">>,
       <<"i", "n", "c", "o", "r", "r", "e", "c", "t", " ", "c", "o", "n", "f", "i", "g">>
      >>]
    >>

\* the incidents submitted for enrichment (IncidentCreate: title, description)
IncidentInputs ==
    <<
     \* "Vague Issue" / "Something is off." (17 characters)
     [title |-> <<"V", "a", "g", "u", "e", " ", "I", "s", "s", "u", "e">>,
      description |-> <<"S", "o", "m", "e", "t", "h", "i", "n", "g", " ", "i", "s", " ", "o", "f", "f", ".">>],
     \* "System Down" / "Production system is completely down and all users are affected" (63 characters)
     [title |-> <<"S", "y", "s", "t", "e", "m", " ", "D", "o", "w", "n">>,
      description |-> <<"P", "r", "o", "d", "u", "c", "t", "i", "o", "n", " ", "s", "y", "s", "t", "e", "m", " ", "i", "s", " ", "c", "o", "m", "p", "l", "e", "t", "e", "l", "y", " ", "d", "o", "w", "n", " ", "a", "n", "d", " ", "a", "l", "l", " ", "u", "s", "e", "r", "s", " ", "a", "r", "e", " ", "a", "f", "f", "e", "c", "t", "e", "d">>],
     \* "Login" / "Password reset mail is delayed for some users now." (50 characters)
     [title |-> <<"L", "o", "g", "i", "n">>,
      description |-> <<"P", "a", "s", "s", "w", "o", "r", "d", " ", "r", "e", "s", "e", "t", " ", "m", "a", "i", "l", " ", "i", "s", " ", "d", "e", "l", "a", "y", "e", "d", " ", "f", "o", "r", " ", "s", "o", "m", "e", " ", "u", "s", "e", "r", "s", " ", "n", "o", "w", ".">>],
     \* "Login" / "Password reset mail is delayed for some users now" (49 characters)
     [title |-> <<"L", "o", "g", "i", "n">>,
      description |-> <<"P", "a", "s", "s", "w", "o", "r", "d", " ", "r", "e", "s", "e", "t", " ", "m", "a", "i", "l", " ", "i", "s", " ", "d", "e", "l", "a", "y", "e", "d", " ", "f", "o", "r", " ", "s", "o", "m", "e", " ", "u", "s", "e", "r", "s", " ", "n", "o", "w">>]
    >>

Letters ==
    [A |-> "a", B |-> "b", C |-> "c", D |-> "d", E |-> "e", F |-> "f", G |-> "g",
     H |-> "h", I |-> "i", J |-> "j", K |-> "k", L |-> "l", M |-> "m", N |-> "n",
     O |-> "o", P |-> "p", Q |-> "q", R |-> "r", S |-> "s", T |-> "t", U |-> "u",
     V |-> "v", W |-> "w", X |-> "x", Y |-> "y", Z |-> "z"]

\* _normalize_text: text.lower()
normalize_text(text) ==
    [i \in 1..Len(text) |->
        IF text[i] \in DOMAIN Letters THEN Letters[text[i]] ELSE text[i]]

\* keyword in normalized
Contains(text, keyword) ==
    \E i \in 1..(Len(text) - Len(keyword) + 1) :
        SubSeq(text, i, i + Len(keyword) - 1) = keyword

AnyKeyword(text, keywords) ==
    \E k \in 1..Len(keywords) : Contains(text, keywords[k])

\* f"{incident.title} {incident.description}"
combined_text(incident) == incident.title \o <<" ">> \o incident.description

\* determine_severity with the loop of lines 67-69 ahead of that of lines 62-64
determine_severity_P2First(incident) ==
    LET normalized == normalize_text(combined_text(incident))
    IN  IF AnyKeyword(normalized, P2_KEYWORDS) THEN "P2"
        ELSE IF AnyKeyword(normalized, P1_KEYWORDS) THEN "P1"
        ELSE "P3"

\* determine_severity
determine_severity(incident) ==
    LET normalized == normalize_text(combined_text(incident))
    IN  IF AnyKeyword(normalized, P1_KEYWORDS) THEN "P1"
        ELSE IF AnyKeyword(normalized, P2_KEYWORDS) THEN "P2"
        ELSE "P3"

\* determine_category: the first category, in priority order, with a keyword match
determine_category(incident) ==
    LET normalized == normalize_text(combined_text(incident))
        hits == {c \in 1..Len(CATEGORY_KEYWORDS) :
                    AnyKeyword(normalized, CATEGORY_KEYWORDS[c].keywords)}
    IN  IF hits = {} THEN "Unknown"
        ELSE CATEGORY_KEYWORDS[CHOOSE c \in hits : \A o \in hits : c <= o].category

\* description.split('.')[0]
FirstSentence(text) ==
    LET dots == {i \in 1..Len(text) : text[i] = "."}
    IN  IF dots = {} THEN text
        ELSE SubSeq(text, 1, (CHOOSE i \in dots : \A j \in dots : i <= j) - 1)

\* str.strip()
Strip(text) ==
    LET solid == {i \in 1..Len(text) : text[i] # " "}
    IN  IF solid = {} THEN <<>>
        ELSE SubSeq(text, CHOOSE i \in solid : \A j \in solid : i <= j,
                          CHOOSE i \in solid : \A j \in solid : i >= j)

\* generate_summary
generate_summary(incident) ==
    LET first == Strip(FirstSentence(incident.description))
        shown == IF Len(first) > 100
                 THEN SubSeq(first, 1, 97) \o <<".", ".", ".">>
                 ELSE first
    IN  incident.title \o <<":", " ">> \o shown

\* a suggested action: its text and the number of similar incidents it cites
\* (0 for a rule-based action, which cites none)
Action(text, n) == [text |-> text, based_on |-> n]

\* suggest_action
suggest_action(incident, category, severity) ==
    IF severity = "P1"
    THEN Action("Immediate escalation required. Contact on-call engineer.", 0)
    ELSE IF category = "Integration Failure"
    THEN Action("Check integration logs and verify external system connectivity.", 0)
    ELSE IF category = "Security / Access"
    THEN Action("Review user permissions and verify access configuration.", 0)
    ELSE IF category = "Data Issue"
    THEN Action("Investigate data integrity and verify transaction logs.", 0)
    ELSE IF category = "Configuration Issue"
    THEN Action("Review system configuration settings and compare with baseline.", 0)
    ELSE Action("Review incident details and assign to appropriate team.", 0)

\* RAGEnrichmentService._enrich_rule_based
enrich_rule_based(incident) ==
    LET severity == determine_severity(incident)
        category == determine_category(incident)
    IN  [severity |-> severity,
         category |-> category,
         summary |-> generate_summary(incident),
         suggested_action |-> suggest_action(incident, category, severity)]

RECURSIVE RuleResultsUpTo(_)
RuleResultsUpTo(n) ==
    IF n = 0 THEN <<>>
    ELSE Append(RuleResultsUpTo(n - 1), enrich_rule_based(IncidentInputs[n]))

\* the rule result of every submitted incident
RuleResults == RuleResultsUpTo(Len(IncidentInputs))

----------------------------------------------------------------------------
(* Hybrid enrichment: RAGEnrichmentService *)

\* a result that passes the rule result through under a method tag
RuleTagged(rule_result, method) ==
    [severity |-> rule_result.severity,
     category |-> rule_result.category,
     summary |-> rule_result.summary,
     suggested_action |-> rule_result.suggested_action,
     enrichment_method |-> method,
     similar_incidents |-> <<>>]

\* _should_use_rag with an except branch (lines 114-116) that escalates
should_use_rag_EscalateOnFailure(incident, rule_result, force, st, emb, cache, ts, t, embedding, storeOk) ==
    IF force
    THEN {[escalate |-> TRUE, trial |-> "skipped", cache |-> cache, ts |-> ts,
           queried |-> FALSE, found |-> 0]}
    ELSE IF rule_result.category = "Unknown"
    THEN {[escalate |-> TRUE, trial |-> "skipped", cache |-> cache, ts |-> ts,
           queried |-> FALSE, found |-> 0]}
    ELSE IF Len(incident.description) < min_description_length
    THEN {[escalate |-> TRUE, trial |-> "skipped", cache |-> cache, ts |-> ts,
           queried |-> FALSE, found |-> 0]}
    ELSE IF embedding = Nothing
    THEN {[escalate |-> TRUE, trial |-> "raised", cache |-> cache, ts |-> ts,
           queried |-> FALSE, found |-> 0]}
    ELSE {[escalate |-> r.raised \/ Len(r.results) > 0,
           trial |-> IF r.raised THEN "raised" ELSE "done",
           cache |-> r.cache, ts |-> r.ts, queried |-> r.queried /\ ~r.raised,
           found |-> IF r.raised THEN 0 ELSE Len(r.results)] :
            r \in find_similar(st, emb, cache, ts, t, storeOk,
                               Get(embedding), 1, "resolved")}

\* _should_use_rag without the Unknown rule of lines 94-95
should_use_rag_LengthFirst(incident, rule_result, force, st, emb, cache, ts, t, embedding, storeOk) ==
    IF force
    THEN {[escalate |-> TRUE, trial |-> "skipped", cache |-> cache, ts |-> ts,
           queried |-> FALSE, found |-> 0]}
    ELSE IF Len(incident.description) < min_description_length
    THEN {[escalate |-> TRUE, trial |-> "skipped", cache |-> cache, ts |-> ts,
           queried |-> FALSE, found |-> 0]}
    ELSE IF embedding = Nothing
    THEN {[escalate |-> FALSE, trial |-> "raised", cache |-> cache, ts |-> ts,
           queried |-> FALSE, found |-> 0]}
    ELSE {[escalate |-> ~r.raised /\ Len(r.results) > 0,
           trial |-> IF r.raised THEN "raised" ELSE "done",
           cache |-> r.cache, ts |-> r.ts, queried |-> r.queried /\ ~r.raised,
           found |-> IF r.raised THEN 0 ELSE Len(r.results)] :
            r \in find_similar(st, emb, cache, ts, t, storeOk,
                               Get(embedding), 1, "resolved")}

\* _should_use_rag with the length rule of line 98 taking in 50 characters
should_use_rag_Inclusive(incident, rule_result, force, st, emb, cache, ts, t, embedding, storeOk) ==
    IF force
    THEN {[escalate |-> TRUE, trial |-> "skipped", cache |-> cache, ts |-> ts,
           queried |-> FALSE, found |-> 0]}
    ELSE IF rule_result.category = "Unknown"
    THEN {[escalate |-> TRUE, trial |-> "skipped", cache |-> cache, ts |-> ts,
           queried |-> FALSE, found |-> 0]}
    ELSE IF Len(incident.description) <= min_description_length
    THEN {[escalate |-> TRUE, trial |-> "skipped", cache |-> cache, ts |-> ts,
           queried |-> FALSE, found |-> 0]}
    ELSE IF embedding = Nothing
    THEN {[escalate |-> FALSE, trial |-> "raised", cache |-> cache, ts |-> ts,
           queried |-> FALSE, found |-> 0]}
    ELSE {[escalate |-> ~r.raised /\ Len(r.results) > 0,
           trial |-> IF r.raised THEN "raised" ELSE "done",
           cache |-> r.cache, ts |-> r.ts, queried |-> r.queried /\ ~r.raised,
           found |-> IF r.raised THEN 0 ELSE Len(r.results)] :
            r \in find_similar(st, emb, cache, ts, t, storeOk,
                               Get(embedding), 1, "resolved")}

\* _should_use_rag escalating on any trial lookup that returns (line 112)
should_use_rag_EscalateOnLookup(incident, rule_result, force, st, emb, cache, ts, t, embedding, storeOk) ==
    IF force
    THEN {[escalate |-> TRUE, trial |-> "skipped", cache |-> cache, ts |-> ts,
           queried |-> FALSE, found |-> 0]}
    ELSE IF rule_result.category = "Unknown"
    THEN {[escalate |-> TRUE, trial |-> "skipped", cache |-> cache, ts |-> ts,
           queried |-> FALSE, found |-> 0]}
    ELSE IF Len(incident.description) < min_description_length
    THEN {[escalate |-> TRUE, trial |-> "skipped", cache |-> cache, ts |-> ts,
           queried |-> FALSE, found |-> 0]}
    ELSE IF embedding = Nothing
    THEN {[escalate |-> FALSE, trial |-> "raised", cache |-> cache, ts |-> ts,
           queried |-> FALSE, found |-> 0]}
    ELSE {[escalate |-> ~r.raised,
           trial |-> IF r.raised THEN "raised" ELSE "done",
           cache |-> r.cache, ts |-> r.ts, queried |-> r.queried /\ ~r.raised,
           found |-> IF r.raised THEN 0 ELSE Len(r.results)] :
            r \in find_similar(st, emb, cache, ts, t, storeOk,
                               Get(embedding), 1, "resolved")}

\* _should_use_rag running the trial lookup of lines 101-113 ahead of the
\* checks of lines 90-99
should_use_rag_TrialFirst(incident, rule_result, force, st, emb, cache, ts, t, embedding, storeOk) ==
    LET sure == \/ force
                \/ rule_result.category = "Unknown"
                \/ Len(incident.description) < min_description_length
    IN  IF embedding = Nothing
        THEN {[escalate |-> sure, trial |-> "raised", cache |-> cache, ts |-> ts,
               queried |-> FALSE, found |-> 0]}
        ELSE {[escalate |-> sure \/ (~r.raised /\ Len(r.results) > 0),
               trial |-> IF r.raised THEN "raised" ELSE "done",
               cache |-> r.cache, ts |-> r.ts, queried |-> r.queried /\ ~r.raised,
               found |-> IF r.raised THEN 0 ELSE Len(r.results)] :
                r \in find_similar(st, emb, cache, ts, t, storeOk,
                                   Get(embedding), 1, "resolved")}

\* _should_use_rag at time t.  embedding is what generate_incident_embedding
\* returns for the trial lookup (Nothing when it raises); storeOk is whether
\* the Incident Store answers.  Yields the decision and the cache fields as the
\* trial lookup leaves them.
should_use_rag(incident, rule_result, force, st, emb, cache, ts, t, embedding, storeOk) ==
    IF force
    THEN {[escalate |-> TRUE, trial |-> "skipped", cache |-> cache, ts |-> ts,
           queried |-> FALSE, found |-> 0]}
    ELSE IF rule_result.category = "Unknown"
    THEN {[escalate |-> TRUE, trial |-> "skipped", cache |-> cache, ts |-> ts,
           queried |-> FALSE, found |-> 0]}
    ELSE IF Len(incident.description) < min_description_length
    THEN {[escalate |-> TRUE, trial |-> "skipped", cache |-> cache, ts |-> ts,
           queried |-> FALSE, found |-> 0]}
    ELSE IF embedding = Nothing
    THEN {[escalate |-> FALSE, trial |-> "raised", cache |-> cache, ts |-> ts,
           queried |-> FALSE, found |-> 0]}
    ELSE {[escalate |-> ~r.raised /\ Len(r.results) > 0,
           trial |-> IF r.raised THEN "raised" ELSE "done",
           cache |-> r.cache, ts |-> r.ts, queried |-> r.queried /\ ~r.raised,
           found |-> IF r.raised THEN 0 ELSE Len(r.results)] :
            r \in find_similar(st, emb, cache, ts, t, storeOk,
                               Get(embedding), 1, "resolved")}

\* _classify_with_llm returning the reply without the Severity(...) and
\* Category(...) conversions of lines 247-250
classify_with_llm_Unchecked(answer) ==
    IF answer = Nothing THEN [raised |-> TRUE]
    ELSE [raised |-> FALSE, severity |-> Get(answer).severity,
          category |-> Get(answer).category]

\* _classify_with_llm: answer is the parsed JSON of the reply, Nothing when the
\* call raises; Severity(...) and Category(...) raise on a value outside the enum
classify_with_llm(answer) ==
    IF answer = Nothing THEN [raised |-> TRUE]
    ELSE IF Get(answer).severity \notin Severity \/ Get(answer).category \notin Category
    THEN [raised |-> TRUE]
    ELSE [raised |-> FALSE, severity |-> Get(answer).severity,
          category |-> Get(answer).category]

RECURSIVE WeightOf(_, _, _)
\* the accumulated similarity weight of value v of a field among the neighbors
WeightOf(similar_incidents, field, v) ==
    IF similar_incidents = <<>> THEN 0
    ELSE (IF Head(similar_incidents).incident[field] = v
          THEN Head(similar_incidents).score ELSE 0)
         + WeightOf(Tail(similar_incidents), field, v)

FirstAt(similar_incidents, field, v) ==
    CHOOSE i \in 1..Len(similar_incidents) :
        /\ similar_incidents[i].incident[field] = v
        /\ \A j \in 1..(i - 1) : similar_incidents[j].incident[field] # v

RECURSIVE Accumulate(_, _, _)
\* the loop of lines 268-277 for one field: counts is the dict, held as the
\* sequence of its items in insertion order
Accumulate(similar_incidents, field, counts) ==
    IF similar_incidents = <<>> THEN counts
    ELSE LET key == Head(similar_incidents).incident[field]
             weight == Head(similar_incidents).score
             at == {i \in 1..Len(counts) : counts[i].key = key}
         IN  Accumulate(Tail(similar_incidents), field,
                IF at = {} THEN Append(counts, [key |-> key, weight |-> weight])
                ELSE [counts EXCEPT ![CHOOSE i \in at : TRUE].weight = @ + weight])

\* max over the items keeping the last of the largest weight
RECURSIVE MaxItem_Last(_, _)
MaxItem_Last(items, best) ==
    IF items = <<>> THEN best
    ELSE MaxItem_Last(Tail(items),
                      IF Head(items).weight >= best.weight THEN Head(items) ELSE best)

\* max(items, key=lambda x: x[1]): an item replaces the best so far only when
\* strictly heavier
RECURSIVE MaxItem(_, _)
MaxItem(items, best) ==
    IF items = <<>> THEN best
    ELSE MaxItem(Tail(items),
                 IF Head(items).weight > best.weight THEN Head(items) ELSE best)

\* max(counts.items(), key=lambda x: x[1])[0] (lines 280-281)
Heaviest(similar_incidents, field) ==
    LET items == Accumulate(similar_incidents, field, <<>>)
    IN  MaxItem(Tail(items), Head(items)).key

\* _classify_by_majority_vote
classify_by_majority_vote(similar_incidents, rule_result) ==
    IF similar_incidents = <<>>
    THEN [severity |-> rule_result.severity, category |-> rule_result.category]
    ELSE [severity |-> Heaviest(similar_incidents, "severity"),
          category |-> Heaviest(similar_incidents, "category")]

\* _generate_action_from_similar: the possible actions.  max(set(actions),
\* key=actions.count) walks a set, whose order is not fixed, so every most
\* frequent action is a possible outcome
generate_action_from_similar(severity, category, similar_incidents, fallback_action) ==
    LET at == {i \in 1..Len(similar_incidents) :
                    similar_incidents[i].incident.suggested_action # None}
        Count(a) == Cardinality({i \in at :
                        similar_incidents[i].incident.suggested_action = a})
        actions == {similar_incidents[i].incident.suggested_action : i \in at}
    IN  IF similar_incidents = <<>> \/ actions = {} THEN {fallback_action}
        ELSE {Action(a, Len(similar_incidents)) :
                a \in {b \in actions : \A c \in actions : Count(b) >= Count(c)}}

\* the similar_incidents list without the [:3] of line 204
TopThree_All(similar_incidents) ==
    [i \in 1..Len(similar_incidents) |->
        [id |-> similar_incidents[i].incident.id,
         category |-> similar_incidents[i].incident.category,
         severity |-> similar_incidents[i].incident.severity,
         similarity_score |-> similar_incidents[i].score]]

\* the similar_incidents list of a rag result: the top 3, scores rounded to 3
\* places (a score is a whole number of hundredths, which rounding leaves as is)
TopThree(similar_incidents) ==
    [i \in 1..Min(Len(similar_incidents), 3) |->
        [id |-> similar_incidents[i].incident.id,
         category |-> similar_incidents[i].incident.category,
         severity |-> similar_incidents[i].incident.severity,
         similarity_score |-> similar_incidents[i].score]]

\* the except branch of lines 174-177 handing over to the majority vote
classify_VoteOnFailure(similar_incidents, rule_result, has_llm, answer) ==
    IF has_llm /\ ~classify_with_llm(answer).raised
    THEN [severity |-> classify_with_llm(answer).severity,
          category |-> classify_with_llm(answer).category, llm |-> "ok"]
    ELSE [severity |-> classify_by_majority_vote(similar_incidents, rule_result).severity,
          category |-> classify_by_majority_vote(similar_incidents, rule_result).category,
          llm |-> IF has_llm THEN "failed" ELSE "skipped"]

\* lines 168-180 of _enrich_with_rag: the classification of an incident that
\* has neighbors
classify(similar_incidents, rule_result, has_llm, answer) ==
    IF has_llm
    THEN IF classify_with_llm(answer).raised
         THEN [severity |-> rule_result.severity, category |-> rule_result.category,
               llm |-> "failed"]
         ELSE [severity |-> classify_with_llm(answer).severity,
               category |-> classify_with_llm(answer).category, llm |-> "ok"]
    ELSE [severity |-> classify_by_majority_vote(similar_incidents, rule_result).severity,
          category |-> classify_by_majority_vote(similar_incidents, rule_result).category,
          llm |-> "skipped"]

\* the empty-neighbors branch of lines 160-166 tagging its result as a fallback
rag_results_Fallback(similar_incidents, rule_result, has_llm, answer) ==
    IF similar_incidents = <<>>
    THEN {[llm |-> "skipped", result |-> RuleTagged(rule_result, "rule_based_fallback")]}
    ELSE LET c == classify(similar_incidents, rule_result, has_llm, answer)
         IN  {[llm |-> c.llm,
               result |-> [severity |-> c.severity,
                           category |-> c.category,
                           summary |-> rule_result.summary,
                           suggested_action |-> a,
                           enrichment_method |-> "rag",
                           similar_incidents |-> TopThree(similar_incidents)]] :
                a \in generate_action_from_similar(c.severity, c.category,
                        similar_incidents, rule_result.suggested_action)}

\* the result of lines 193-209 tagged as the rule result is
rag_results_RuleTag(similar_incidents, rule_result, has_llm, answer) ==
    IF similar_incidents = <<>>
    THEN {[llm |-> "skipped", result |-> RuleTagged(rule_result, "rule_based")]}
    ELSE LET c == classify(similar_incidents, rule_result, has_llm, answer)
         IN  {[llm |-> c.llm,
               result |-> [severity |-> c.severity,
                           category |-> c.category,
                           summary |-> rule_result.summary,
                           suggested_action |-> a,
                           enrichment_method |-> "rule_based",
                           similar_incidents |-> TopThree(similar_incidents)]] :
                a \in generate_action_from_similar(c.severity, c.category,
                        similar_incidents, rule_result.suggested_action)}

\* _enrich_with_rag without the early return of lines 160-166: with no
\* neighbor the rule result goes on to be tagged rag
rag_results_NoEarlyReturn(similar_incidents, rule_result, has_llm, answer) ==
    IF similar_incidents = <<>>
    THEN {[llm |-> "skipped", result |-> RuleTagged(rule_result, "rag")]}
    ELSE LET c == classify(similar_incidents, rule_result, has_llm, answer)
         IN  {[llm |-> c.llm,
               result |-> [severity |-> c.severity,
                           category |-> c.category,
                           summary |-> rule_result.summary,
                           suggested_action |-> a,
                           enrichment_method |-> "rag",
                           similar_incidents |-> TopThree(similar_incidents)]] :
                a \in generate_action_from_similar(c.severity, c.category,
                        similar_incidents, rule_result.suggested_action)}

\* lines 160-209 of _enrich_with_rag: the possible results for the neighbors found
rag_results(similar_incidents, rule_result, has_llm, answer) ==
    IF similar_incidents = <<>>
    THEN {[llm |-> "skipped", result |-> RuleTagged(rule_result, "rule_based")]}
    ELSE LET c == classify(similar_incidents, rule_result, has_llm, answer)
         IN  {[llm |-> c.llm,
               result |-> [severity |-> c.severity,
                           category |-> c.category,
                           summary |-> rule_result.summary,
                           suggested_action |-> a,
                           enrichment_method |-> "rag",
                           similar_incidents |-> TopThree(similar_incidents)]] :
                a \in generate_action_from_similar(c.severity, c.category,
                        similar_incidents, rule_result.suggested_action)}

\* _enrich_with_rag with a lookup (line 157) of open incidents
enrich_with_rag_OpenFilter(rule_result, has_llm, st, emb, cache, ts, t, embedding, storeOk, answers) ==
    IF embedding = Nothing
    THEN {[raised |-> TRUE, cache |-> cache, ts |-> ts, queried |-> FALSE]}
    ELSE UNION {
            IF r.raised
            THEN {[raised |-> TRUE, cache |-> r.cache, ts |-> r.ts, queried |-> FALSE]}
            ELSE UNION {
                    {[raised |-> FALSE, cache |-> r.cache, ts |-> r.ts,
                      queried |-> r.queried, neighbors |-> r.results,
                      llm |-> g.llm, reply |-> answer, result |-> g.result] :
                        g \in rag_results(r.results, rule_result, has_llm, answer)} :
                    answer \in IF has_llm /\ r.results # <<>> THEN answers ELSE {Nothing}} :
            r \in find_similar(st, emb, cache, ts, t, storeOk, Get(embedding),
                               rag_max_similar_incidents, "open")}

\* _enrich_with_rag at time t: the possible outcomes.  embedding is what
\* generate_incident_embedding returns (Nothing when it raises), answers the
\* replies the LLM may give when it is called (Nothing when the call raises)
enrich_with_rag(rule_result, has_llm, st, emb, cache, ts, t, embedding, storeOk, answers) ==
    IF embedding = Nothing
    THEN {[raised |-> TRUE, cache |-> cache, ts |-> ts, queried |-> FALSE]}
    ELSE UNION {
            IF r.raised
            THEN {[raised |-> TRUE, cache |-> r.cache, ts |-> r.ts, queried |-> FALSE]}
            ELSE UNION {
                    {[raised |-> FALSE, cache |-> r.cache, ts |-> r.ts,
                      queried |-> r.queried, neighbors |-> r.results,
                      llm |-> g.llm, reply |-> answer, result |-> g.result] :
                        g \in rag_results(r.results, rule_result, has_llm, answer)} :
                    answer \in IF has_llm /\ r.results # <<>> THEN answers ELSE {Nothing}} :
            r \in find_similar(st, emb, cache, ts, t, storeOk, Get(embedding),
                               rag_max_similar_incidents, "resolved")}

\* enrich_incident without the try/except of lines 67-77: the exception of
\* _enrich_with_rag reaches the caller
after_rag_Propagates(rule_result, g) ==
    IF g.raised THEN [raised |-> TRUE] ELSE g.result

\* the except branch tagging its result as the no-escalation branch does
after_rag_Untagged(rule_result, g) ==
    IF g.raised THEN RuleTagged(rule_result, "rule_based") ELSE g.result

\* what enrich_incident returns once _enrich_with_rag has run (lines 66-77)
after_rag(rule_result, g) ==
    IF g.raised THEN RuleTagged(rule_result, "rule_based_fallback") ELSE g.result

----------------------------------------------------------------------------
(* State machine *)

Idle == [op |-> "none"]

\* the callers of the Similarity Index and the frame of a caller between calls
Threads == {"t1", "t2"}
IdleFrame == [pc |-> "idle"]

\* lineage of a candidate list: behind holds the callers whose add or remove
\* wrote the embedding map after the list was computed and has not returned
\* yet; stale says that such an add or remove has returned
Fresh == [behind |-> {}, stale |-> FALSE]

\* ids of the incidents the Incident Store holds as resolved
ResolvedIds(st) == {id \in DOMAIN st : st[id].status = "resolved"}

\* the history before any lookup: captured_at is the time of the last rebuild
\* of the candidate list, dirty whether an add or remove followed it, removed
\* the incidents whose embedding was removed and not added again, for the
\* removals that were followed, since a time from which an incident has been
\* resolved without interruption, for the resolutions that were followed,
\* latest the most recent add or remove call on each id, for the calls that
\* were followed, with whether the id had an embedding when the call was made
NoHistory(st) ==
    [captured_at |-> Nothing, dirty |-> FALSE, removed |-> {}, latest |-> <<>>,
     since |-> [id \in ResolvedIds(st) |-> 0]]

\* the calls followed so far, and then a call of add or remove on id
Noted(latest, id, op, vec, present) ==
    [x \in DOMAIN latest \cup {id} |->
        IF x = id THEN [op |-> op, vec |-> vec, present |-> present]
        ELSE latest[x]]

\* the history once the candidate list has been rebuilt at time t
Captured(h, t) == [h EXCEPT !.captured_at = Some(t), !.dirty = FALSE]

Init ==
    /\ storage = <<>>
    /\ embeddings = <<>>
    /\ resolved_incidents_cache = Nothing
    /\ cache_timestamp = Nothing
    /\ llm_client = FALSE
    /\ rag_force_all = FALSE
    /\ now = 0
    /\ last = Idle
    /\ hist = NoHistory(storage)
    /\ threads = [t \in Threads |-> IdleFrame]
    /\ lineage = Fresh

\* repository.create of the next incident; cap bounds the store
Create(cap) ==
    /\ Len(storage) < cap
    /\ storage' = repo_create(storage, IncidentData(Len(storage) + 1))
    /\ last' = Idle
    /\ UNCHANGED <<embeddings, resolved_incidents_cache, cache_timestamp, now, hist, llm_client, rag_force_all, threads, lineage>>

\* repository.update(id, {'status': status})
Update(id, status) ==
    /\ storage' = repo_update(storage, id, status)
    /\ last' = Idle
    /\ UNCHANGED <<embeddings, resolved_incidents_cache, cache_timestamp, now, hist, llm_client, rag_force_all, threads, lineage>>

\* repository.update(id, {'status': status}), the time of the resolution noted
UpdateNoted(id, status) ==
    /\ storage' = repo_update(storage, id, status)
    /\ last' = Idle
    /\ hist' = [hist EXCEPT !.since =
                    [x \in ResolvedIds(storage') |->
                        IF x \in DOMAIN hist.since THEN hist.since[x] ELSE now]]
    /\ UNCHANGED <<embeddings, resolved_incidents_cache, cache_timestamp, now, llm_client, rag_force_all, threads, lineage>>

AddEmbedding(id, vec) ==
    /\ embeddings' = add_embedding(embeddings, id, vec)
    /\ resolved_incidents_cache' = Nothing
    /\ last' = Idle
    /\ hist' = [hist EXCEPT !.dirty = TRUE]
    /\ UNCHANGED <<storage, cache_timestamp, now, llm_client, rag_force_all, threads, lineage>>

\* add_embedding(id, vec), the end of a removal noted
AddEmbeddingNoted(id, vec) ==
    /\ embeddings' = add_embedding(embeddings, id, vec)
    /\ resolved_incidents_cache' = Nothing
    /\ last' = Idle
    /\ hist' = [hist EXCEPT !.dirty = TRUE, !.removed = @ \ {id},
                             !.latest = Noted(@, id, "add", Some(vec),
                                              HasEmbedding(embeddings, id))]
    /\ UNCHANGED <<storage, cache_timestamp, now, llm_client, rag_force_all, threads, lineage>>

RemoveEmbedding(id) ==
    /\ embeddings' = remove_embedding(embeddings, id)
    /\ resolved_incidents_cache' = Nothing
    /\ last' = Idle
    /\ hist' = [hist EXCEPT !.dirty = TRUE]
    /\ UNCHANGED <<storage, cache_timestamp, now, llm_client, rag_force_all, threads, lineage>>

\* remove_embedding(id), the removal noted
RemoveEmbeddingNoted(id) ==
    /\ embeddings' = remove_embedding(embeddings, id)
    /\ resolved_incidents_cache' = Nothing
    /\ last' = Idle
    /\ hist' = [hist EXCEPT !.dirty = TRUE, !.removed = @ \cup {id},
                             !.latest = Noted(@, id, "remove", Nothing,
                                              HasEmbedding(embeddings, id))]
    /\ UNCHANGED <<storage, cache_timestamp, now, llm_client, rag_force_all, threads, lineage>>

\* get_embedding(id)
GetEmbedding(id) ==
    /\ last' = [op |-> "get_embedding", id |-> id,
                result |-> get_embedding(embeddings, id)]
    /\ UNCHANGED <<storage, embeddings, resolved_incidents_cache, cache_timestamp, now, hist, llm_client, rag_force_all, threads, lineage>>

FindSimilar(query, limit, status, storeOk) ==
    \E r \in find_similar(storage, embeddings, resolved_incidents_cache,
                          cache_timestamp, now, storeOk, query, limit, status) :
        /\ resolved_incidents_cache' = r.cache
        /\ cache_timestamp' = r.ts
        /\ last' = [op |-> "find_similar", query |-> query, limit |-> limit,
                    status |-> status, raised |-> r.raised, results |-> r.results,
                    candidates |-> r.candidates, queried |-> r.queried]
        /\ hist' = IF status = "resolved" /\ r.queried /\ ~r.raised
                   THEN Captured(hist, now)
                   ELSE hist
        /\ UNCHANGED <<storage, embeddings, now, llm_client, rag_force_all, threads, lineage>>

\* one minute passes
Advance ==
    /\ now < MaxTime
    /\ now' = now + 1
    /\ last' = Idle
    /\ UNCHANGED <<storage, embeddings, resolved_incidents_cache, cache_timestamp, hist, llm_client, rag_force_all, threads, lineage>>

\* the replies an LLM may give: valid, or outside the enums
Answers ==
    {[severity |-> "P1", category |-> "Security / Access"],
     [severity |-> "P4", category |-> "Data Issue"],
     [severity |-> "P2", category |-> "Other"]}

LLMOutcomes == {Nothing} \cup {Some(a) : a \in Answers}

\* one use of the retrieval path: the embedding the provider returns (Nothing:
\* it raises) and whether the Incident Store answers the lookup that follows
Attempts ==
    {[embedding |-> Nothing, storeOk |-> TRUE]}
    \cup {[embedding |-> Some(q), storeOk |-> ok] : q \in Queries, ok \in BOOLEAN}

\* enrich_incident returns: the index is left as the last lookup left it
Return(cache, ts, t, captured, record) ==
    /\ resolved_incidents_cache' = cache
    /\ cache_timestamp' = ts
    /\ now' = t
    /\ hist' = IF captured = Nothing THEN hist
               ELSE Captured(hist, Get(captured))
    /\ last' = record
    /\ UNCHANGED <<storage, embeddings, llm_client, rag_force_all, threads, lineage>>

\* _enrich_with_rag and the return of enrich_incident (lines 66-77), after the
\* routing decision s; a is the attempt, d the minutes gone since the routing
\* decision
Retrieve(i, s, a, d) ==
    \E g \in enrich_with_rag(RuleResults[i], llm_client, storage, embeddings,
                             s.cache, s.ts, now + d, a.embedding, a.storeOk,
                             LLMOutcomes) :
        Return(g.cache, g.ts, now + d,
               IF g.queried THEN Some(now + d)
               ELSE IF s.queried THEN Some(now) ELSE Nothing,
               [op |-> "enrich", incident |-> i, escalated |-> TRUE,
                trial |-> s.trial, trial_found |-> s.found,
                rag |-> IF g.raised THEN "raised" ELSE "done",
                llm |-> IF g.raised THEN "skipped" ELSE g.llm,
                reply |-> IF g.raised THEN Nothing ELSE g.reply,
                took |-> d,
                calls |-> [policy_embedding |-> IF s.trial = "skipped" THEN 0 ELSE 1,
                           policy_lookup |-> IF s.trial = "skipped" THEN 0 ELSE 1,
                           embedding |-> (IF s.trial = "skipped" THEN 0 ELSE 1) + 1,
                           llm |-> IF g.raised \/ g.llm = "skipped" THEN 0 ELSE 1],
                neighbors |-> IF g.raised THEN <<>> ELSE g.neighbors,
                result |-> after_rag(RuleResults[i], g)])

\* enrich_incident(IncidentInputs[i]): a1 is the first use of the retrieval
\* path, by the routing policy's trial lookup if it runs one and by
\* _enrich_with_rag otherwise.  calls counts the calls made on the way: of
\* generate_incident_embedding (lines 102 and 148) and find_similar (line 106)
\* by the routing policy, of generate_incident_embedding in all, and of
\* _classify_with_llm (line 171); a policy that does not escalate ran its
\* trial lookup.  seconds are the attempts _enrich_with_rag may make after a
\* trial lookup, took the minutes between the routing decision and the
\* lookup of _enrich_with_rag
EnrichBy(i, a1, seconds, d) ==
    /\ now + d <= MaxTime
    /\ \E s \in should_use_rag(IncidentInputs[i], RuleResults[i], rag_force_all,
                               storage, embeddings, resolved_incidents_cache,
                               cache_timestamp, now, a1.embedding, a1.storeOk) :
        IF ~s.escalate
        THEN Return(s.cache, s.ts, now,
                    IF s.queried THEN Some(now) ELSE Nothing,
                    [op |-> "enrich", incident |-> i, escalated |-> FALSE,
                     trial |-> s.trial, trial_found |-> s.found,
                     rag |-> "skipped", llm |-> "skipped", reply |-> Nothing,
                     took |-> 0,
                     calls |-> [policy_embedding |-> 1,
                                policy_lookup |-> IF a1.embedding = Nothing THEN 0 ELSE 1,
                                embedding |-> 1,
                                llm |-> 0],
                     neighbors |-> <<>>,
                     result |-> RuleTagged(RuleResults[i], "rule_based")])
        ELSE IF s.trial = "skipped"
             THEN Retrieve(i, s, a1, d)
             ELSE \E a2 \in seconds : Retrieve(i, s, a2, d)

\* enrich_incident(IncidentInputs[i]), whatever the second attempt does
Enrich(i, a1, d) == EnrichBy(i, a1, Attempts, d)

StatusInputs == {"open", "resolved"}
Limits == {1, 2}
TimedVecs == {<<10, 0, 0, 0>>}
TimedQueries == {<<10, 0, 0, 0>>}

Next ==
    \/ Create(MaxStored)
    \/ \E id \in 1..MaxStored, s \in StatusInputs : Update(id, s)
    \/ \E id \in 1..MaxStored, v \in TimedVecs : AddEmbedding(id, v)
    \/ \E id \in 1..MaxStored : RemoveEmbedding(id)
    \/ \E q \in TimedQueries, l \in Limits, s \in StatusInputs, ok \in BOOLEAN :
            FindSimilar(q, l, s, ok)
    \/ Advance

Spec == Init /\ [][Next]_vars

(* Enrichment over a store and an index that are filled step by step, within *)
(* one minute of the clock                                                   *)

InitEnrich ==
    /\ storage = <<>>
    /\ embeddings = <<>>
    /\ resolved_incidents_cache = Nothing
    /\ cache_timestamp = Nothing
    /\ llm_client \in BOOLEAN
    /\ rag_force_all \in BOOLEAN
    /\ now = 0
    /\ last = Idle
    /\ hist = NoHistory(storage)
    /\ threads = [t \in Threads |-> IdleFrame]
    /\ lineage = Fresh

EnrichVecs == {<<10, 0, 0, 0>>}

NextEnrich ==
    \/ Create(MaxStored)
    \/ \E id \in 1..MaxStored, s \in StatusInputs : Update(id, s)
    \/ \E id \in 1..MaxStored, v \in EnrichVecs : AddEmbedding(id, v)
    \/ \E id \in 1..MaxStored : RemoveEmbedding(id)
    \/ \E i \in DOMAIN IncidentInputs, a1 \in Attempts : Enrich(i, a1, 0)

SpecEnrich == InitEnrich /\ [][NextEnrich]_vars

(* Ranking over a store and an index drawn from every content of up to *)
(* MaxCandidates incidents, before any lookup                           *)

Stores ==
    UNION {{[i \in 1..n |-> [IncidentData(i) EXCEPT !.status = status[i]]] :
                status \in [1..n -> StatusInputs]} : n \in 0..MaxCandidates}

Indexes(n) == UNION {[D -> Vecs] : D \in SUBSET (1..n)}

InitRank ==
    /\ storage \in Stores
    /\ embeddings \in Indexes(Len(storage))
    /\ resolved_incidents_cache = Nothing
    /\ cache_timestamp = Nothing
    /\ llm_client = FALSE
    /\ rag_force_all = FALSE
    /\ now = 0
    /\ last = Idle
    /\ hist = NoHistory(storage)
    /\ threads = [t \in Threads |-> IdleFrame]
    /\ lineage = Fresh

RankLimits == {1, 2, 3}

NextRank ==
    \E q \in Queries, l \in RankLimits, s \in StatusInputs :
        FindSimilar(q, l, s, TRUE)

SpecRank == InitRank /\ [][NextRank]_vars

----------------------------------------------------------------------------
(* Callers of one Similarity Index running at once.  InMemoryVectorRepository *)
(* takes no lock, so a call is a run of steps, one per statement, and the     *)
(* steps of different callers interleave.  The clock stands still.            *)

ConcVec == <<10, 0, 0, 0>>

InitConc ==
    /\ storage = <<[IncidentData(1) EXCEPT !.status = "resolved"],
                   [IncidentData(2) EXCEPT !.status = "resolved"]>>
    /\ embeddings = add_embedding(<<>>, 1, ConcVec)
    /\ resolved_incidents_cache = Nothing
    /\ cache_timestamp = Nothing
    /\ llm_client = FALSE
    /\ rag_force_all = FALSE
    /\ now = 0
    /\ last = Idle
    /\ hist = NoHistory(storage)
    /\ threads = [t \in Threads |-> IdleFrame]
    /\ lineage = Fresh

At(t, pc) == threads[t].pc = pc

Goto(t, frame) == threads' = [threads EXCEPT ![t] = frame]

\* find_similar(query, limit, status="resolved") is entered
CallFindSimilar(t, query, limit) ==
    /\ At(t, "idle")
    /\ Goto(t, [pc |-> "check_cache", query |-> query, limit |-> limit])
    /\ UNCHANGED <<storage, embeddings, resolved_incidents_cache, cache_timestamp,
                   llm_client, rag_force_all, now, last, hist, lineage>>

\* the cache check of _get_resolved_incidents (lines 99-101)
CheckCache(t) ==
    /\ At(t, "check_cache")
    /\ Goto(t, [threads[t] EXCEPT !.pc =
                    IF CacheIsFresh(resolved_incidents_cache, cache_timestamp, now)
                    THEN "read_cache" ELSE "list_all"])
    /\ UNCHANGED <<storage, embeddings, resolved_incidents_cache, cache_timestamp,
                   llm_client, rag_force_all, now, last, hist, lineage>>

\* return self._resolved_incidents_cache (line 102): the field is read again,
\* and holds None if an add or remove went by since the check; find_similar
\* then returns [] at line 153
ReadCache(t) ==
    /\ At(t, "read_cache")
    /\ Goto(t, [pc |-> "scan", query |-> threads[t].query, limit |-> threads[t].limit,
                candidates |-> IF resolved_incidents_cache = Nothing THEN <<>>
                               ELSE Get(resolved_incidents_cache),
                queried |-> FALSE, k |-> 1, incidents |-> <<>>, vectors |-> <<>>])
    /\ UNCHANGED <<storage, embeddings, resolved_incidents_cache, cache_timestamp,
                   llm_client, rag_force_all, now, last, hist, lineage>>

\* incident_repo.list_all(limit=10000, status="resolved") (lines 105-108)
ListAll(t) ==
    /\ At(t, "list_all")
    /\ Goto(t, [pc |-> "filter", query |-> threads[t].query, limit |-> threads[t].limit,
                resolved |-> list_all(storage, "resolved")])
    /\ UNCHANGED <<storage, embeddings, resolved_incidents_cache, cache_timestamp,
                   llm_client, rag_force_all, now, last, hist, lineage>>

\* incidents_with_embeddings = [...] (lines 111-114): the list is computed from
\* the embedding map as it stands now
FilterEmbedded(t) ==
    /\ At(t, "filter")
    /\ Goto(t, [pc |-> "install_cache", query |-> threads[t].query,
                limit |-> threads[t].limit,
                list |-> SelectSeq(threads[t].resolved,
                                   LAMBDA inc : HasEmbedding(embeddings, inc.id)),
                behind |-> {}, stale |-> FALSE])
    /\ UNCHANGED <<storage, embeddings, resolved_incidents_cache, cache_timestamp,
                   llm_client, rag_force_all, now, last, hist, lineage>>

\* self._resolved_incidents_cache = incidents_with_embeddings (line 117)
InstallCache(t) ==
    /\ At(t, "install_cache")
    /\ resolved_incidents_cache' = Some(threads[t].list)
    /\ lineage' = [behind |-> threads[t].behind, stale |-> threads[t].stale]
    /\ Goto(t, [pc |-> "install_timestamp", query |-> threads[t].query,
                limit |-> threads[t].limit, list |-> threads[t].list])
    /\ UNCHANGED <<storage, embeddings, cache_timestamp, llm_client, rag_force_all,
                   now, last, hist>>

\* self._cache_timestamp = datetime.now() and the return (lines 118-120)
InstallTimestamp(t) ==
    /\ At(t, "install_timestamp")
    /\ cache_timestamp' = Some(now)
    /\ Goto(t, [pc |-> "scan", query |-> threads[t].query, limit |-> threads[t].limit,
                candidates |-> threads[t].list, queried |-> TRUE, k |-> 1,
                incidents |-> <<>>, vectors |-> <<>>])
    /\ UNCHANGED <<storage, embeddings, resolved_incidents_cache, llm_client,
                   rag_force_all, now, last, hist, lineage>>

\* find_similar hands its caller what it returns or raises
ReturnFound(t, raised, results) ==
    /\ last' = [op |-> "find_similar", query |-> threads[t].query,
                limit |-> threads[t].limit, status |-> "resolved",
                raised |-> raised, results |-> results,
                candidates |-> threads[t].candidates, queried |-> threads[t].queried]
    /\ Goto(t, IdleFrame)

\* if incident.id in self._embeddings (line 161), for the k-th candidate
ScanTest(t) ==
    /\ At(t, "scan")
    /\ threads[t].k <= Len(threads[t].candidates)
    /\ Goto(t, IF HasEmbedding(embeddings, threads[t].candidates[threads[t].k].id)
               THEN [threads[t] EXCEPT !.pc = "scan_read"]
               ELSE [threads[t] EXCEPT !.k = @ + 1])
    /\ UNCHANGED <<storage, embeddings, resolved_incidents_cache, cache_timestamp,
                   llm_client, rag_force_all, now, last, hist, lineage>>

\* self._embeddings[incident.id] (line 162): a KeyError if the entry left the
\* map since the test
ScanRead(t) ==
    /\ At(t, "scan_read")
    /\ LET inc == threads[t].candidates[threads[t].k]
       IN  IF HasEmbedding(embeddings, inc.id)
           THEN /\ Goto(t, [threads[t] EXCEPT
                                !.pc = "scan", !.k = @ + 1,
                                !.incidents = Append(@, inc),
                                !.vectors = add_embedding(@, inc.id, embeddings[inc.id])])
                /\ UNCHANGED last
           ELSE ReturnFound(t, TRUE, <<>>)
    /\ UNCHANGED <<storage, embeddings, resolved_incidents_cache, cache_timestamp,
                   llm_client, rag_force_all, now, hist, lineage>>

\* lines 165-185 once the loop is over: similarities, sort, threshold
Rank(t) ==
    /\ At(t, "scan")
    /\ threads[t].k > Len(threads[t].candidates)
    /\ \E results \in rank(threads[t].incidents, threads[t].vectors,
                           threads[t].query, threads[t].limit) :
            ReturnFound(t, FALSE, results)
    /\ UNCHANGED <<storage, embeddings, resolved_incidents_cache, cache_timestamp,
                   llm_client, rag_force_all, now, hist, lineage>>

\* the frames once caller t has written the embedding map: every list
\* computed and not yet installed was computed before that write
AfterWrite(t, frame) ==
    [u \in Threads |->
        IF u = t THEN frame
        ELSE IF threads[u].pc = "install_cache"
        THEN [threads[u] EXCEPT !.behind = @ \cup {t}]
        ELSE threads[u]]

\* the frames once the add or remove of caller t has returned
AfterReturn(t) ==
    [u \in Threads |->
        IF u = t THEN IdleFrame
        ELSE IF threads[u].pc = "install_cache" /\ t \in threads[u].behind
        THEN [threads[u] EXCEPT !.behind = @ \ {t}, !.stale = TRUE]
        ELSE threads[u]]

\* add_embedding(id, vec, metadata) is entered
CallAddEmbedding(t, id, vec) ==
    /\ At(t, "idle")
    /\ Goto(t, [pc |-> "add_write", id |-> id, vec |-> vec])
    /\ UNCHANGED <<storage, embeddings, resolved_incidents_cache, cache_timestamp,
                   llm_client, rag_force_all, now, last, hist, lineage>>

\* self._embeddings[incident_id] = embedding (lines 78-79)
AddWrite(t) ==
    /\ At(t, "add_write")
    /\ embeddings' = add_embedding(embeddings, threads[t].id, threads[t].vec)
    /\ threads' = AfterWrite(t, [pc |-> "add_invalidate"])
    /\ lineage' = IF resolved_incidents_cache = Nothing THEN lineage
                  ELSE [lineage EXCEPT !.behind = @ \cup {t}]
    /\ UNCHANGED <<storage, resolved_incidents_cache, cache_timestamp, llm_client,
                   rag_force_all, now, last, hist>>

\* self._resolved_incidents_cache = None (line 81) and the return
AddInvalidate(t) ==
    /\ At(t, "add_invalidate")
    /\ resolved_incidents_cache' = Nothing
    /\ lineage' = Fresh
    /\ threads' = AfterReturn(t)
    /\ UNCHANGED <<storage, embeddings, cache_timestamp, llm_client, rag_force_all,
                   now, last, hist>>

\* remove_embedding(id) is entered
CallRemoveEmbedding(t, id) ==
    /\ At(t, "idle")
    /\ Goto(t, [pc |-> "remove_write", id |-> id])
    /\ UNCHANGED <<storage, embeddings, resolved_incidents_cache, cache_timestamp,
                   llm_client, rag_force_all, now, last, hist, lineage>>

\* self._embeddings.pop(incident_id, None) (lines 89-90)
RemoveWrite(t) ==
    /\ At(t, "remove_write")
    /\ embeddings' = remove_embedding(embeddings, threads[t].id)
    /\ threads' = AfterWrite(t, [pc |-> "remove_invalidate"])
    /\ lineage' = IF resolved_incidents_cache = Nothing THEN lineage
                  ELSE [lineage EXCEPT !.behind = @ \cup {t}]
    /\ UNCHANGED <<storage, resolved_incidents_cache, cache_timestamp, llm_client,
                   rag_force_all, now, last, hist>>

\* self._resolved_incidents_cache = None (line 91) and the return
RemoveInvalidate(t) ==
    /\ At(t, "remove_invalidate")
    /\ resolved_incidents_cache' = Nothing
    /\ lineage' = Fresh
    /\ threads' = AfterReturn(t)
    /\ UNCHANGED <<storage, embeddings, cache_timestamp, llm_client, rag_force_all,
                   now, last, hist>>

NextConc ==
    \E t \in Threads :
        \/ CallFindSimilar(t, ConcVec, rag_max_similar_incidents)
        \/ CheckCache(t)
        \/ ReadCache(t)
        \/ ListAll(t)
        \/ FilterEmbedded(t)
        \/ InstallCache(t)
        \/ InstallTimestamp(t)
        \/ ScanTest(t)
        \/ ScanRead(t)
        \/ Rank(t)
        \/ \E id \in DOMAIN storage : CallAddEmbedding(t, id, ConcVec)
        \/ AddWrite(t)
        \/ AddInvalidate(t)
        \/ \E id \in DOMAIN storage : CallRemoveEmbedding(t, id)
        \/ RemoveWrite(t)
        \/ RemoveInvalidate(t)

SpecConc == InitConc /\ [][NextConc]_vars

----------------------------------------------------------------------------
(* The classification of lines 160-209 of _enrich_with_rag, without an LLM, *)
(* over every neighbor list find_similar can hand it, up to MaxNeighbors    *)
(* neighbors                                                                 *)

\* severity, category and suggested action of the resolved incidents found
VoteProfiles ==
    {[severity |-> "P1", category |-> "Data Issue",
      suggested_action |-> "Investigate data integrity"],
     [severity |-> "P2", category |-> "Integration Failure",
      suggested_action |-> "Check integration logs"],
     [severity |-> "P2", category |-> "Data Issue", suggested_action |-> None]}

VoteScores == {70, 100}

\* the lists of n neighbors: distinct incidents, scores non-increasing
NeighborLists(n) ==
    {Seq1([i \in 1..n |->
            [incident |-> [id |-> i, status |-> "resolved",
                           severity |-> profile[i].severity,
                           category |-> profile[i].category,
                           suggested_action |-> profile[i].suggested_action],
             score |-> score[i]]]) :
        profile \in [1..n -> VoteProfiles],
        score \in {sc \in [1..n -> VoteScores] :
                        \A i \in 1..(n - 1) : sc[i] >= sc[i + 1]}}

InitVote ==
    /\ storage = <<>>
    /\ embeddings = <<>>
    /\ resolved_incidents_cache = Nothing
    /\ cache_timestamp = Nothing
    /\ llm_client = FALSE
    /\ rag_force_all = FALSE
    /\ now = 0
    /\ \E n \in 0..Min(MaxNeighbors, rag_max_similar_incidents) :
        \E neighbors \in NeighborLists(n) :
            last = [op |-> "neighbors", neighbors |-> neighbors]
    /\ hist = NoHistory(storage)
    /\ threads = [t \in Threads |-> IdleFrame]
    /\ lineage = Fresh

\* lines 160-209 of _enrich_with_rag for IncidentInputs[i] and the neighbors
\* at hand
Classify(i) ==
    /\ last.op \in {"neighbors", "classify"}
    /\ \E g \in rag_results(last.neighbors, RuleResults[i], llm_client, Nothing) :
        last' = [op |-> "classify", incident |-> i, neighbors |-> last.neighbors,
                 llm |-> g.llm, result |-> g.result]
    /\ UNCHANGED <<storage, embeddings, resolved_incidents_cache, cache_timestamp,
                   llm_client, rag_force_all, now, hist, threads, lineage>>

NextVote == \E i \in DOMAIN IncidentInputs : Classify(i)

SpecVote == InitVote /\ [][NextVote]_vars

----------------------------------------------------------------------------
(* Resolved lookups over a store whose incidents change status as the clock  *)
(* runs, with no add or remove: the index is as add_embedding left it        *)

InitStale ==
    /\ storage \in {st \in Stores : Len(st) <= MaxStored}
    /\ embeddings \in UNION {[D -> TimedVecs] : D \in SUBSET DOMAIN storage}
    /\ resolved_incidents_cache = Nothing
    /\ cache_timestamp = Nothing
    /\ llm_client = FALSE
    /\ rag_force_all = FALSE
    /\ now = 0
    /\ last = Idle
    /\ hist = NoHistory(storage)
    /\ threads = [t \in Threads |-> IdleFrame]
    /\ lineage = Fresh

NextStale ==
    \/ \E id \in 1..MaxStored, s \in StatusInputs : UpdateNoted(id, s)
    \/ \E q \in TimedQueries : FindSimilar(q, rag_max_similar_incidents, "resolved", TRUE)
    \/ Advance

SpecStale == InitStale /\ [][NextStale]_vars

----------------------------------------------------------------------------
(* Lookups over an index whose embeddings come and go, the store fixed *)

EvictVecs == {<<10, 0, 0, 0>>, <<8, 6, 0, 0>>}

InitEvict ==
    /\ storage \in {st \in Stores : Len(st) = MaxStored}
    /\ embeddings = <<>>
    /\ resolved_incidents_cache = Nothing
    /\ cache_timestamp = Nothing
    /\ llm_client = FALSE
    /\ rag_force_all = FALSE
    /\ now = 0
    /\ last = Idle
    /\ hist = NoHistory(storage)
    /\ threads = [t \in Threads |-> IdleFrame]
    /\ lineage = Fresh

NextEvict ==
    \/ \E id \in 1..MaxStored, v \in EvictVecs : AddEmbeddingNoted(id, v)
    \/ \E id \in 1..MaxStored : RemoveEmbeddingNoted(id)
    \/ \E id \in 1..MaxStored : GetEmbedding(id)
    \/ \E q \in TimedQueries, limit \in Limits, s \in StatusInputs :
            FindSimilar(q, limit, s, TRUE)

SpecEvict == InitEvict /\ [][NextEvict]_vars

----------------------------------------------------------------------------
(* PATCH /api/incidents/{id} over the DynamoDB-backed Incident Store: the    *)
(* table is a function from the ids it holds to their items, an item a       *)
(* record of the attributes it has                                           *)

\* the attributes _dict_to_response reads with item[...]
RequiredAttributes == {"id", "status", "severity", "category"}

\* table.put_item(Item=incident_data)
put_item(table, item) ==
    [x \in DOMAIN table \cup {item.id} |-> IF x = item.id THEN item ELSE table[x]]

\* table.update_item(Key={'id': id}, UpdateExpression='SET #status = :status'):
\* the attribute is set on the item of that key, an item the call adds to the
\* table when the table holds none
update_item(table, id, status) ==
    [x \in DOMAIN table \cup {id} |->
        IF x # id THEN table[x]
        ELSE IF id \in DOMAIN table THEN [table[id] EXCEPT !.status = status]
        ELSE [id |-> id, status |-> status]]

\* IncidentRepository.update: the table as the call leaves it and what comes
\* back, the response or the KeyError of _dict_to_response.  None comes back
\* on ResourceNotFoundException only, which the service raises for a table
\* that does not exist; the table exists
dynamo_update(table, id, status) ==
    LET updated == update_item(table, id, status)
    IN  [table |-> updated,
         outcome |-> IF RequiredAttributes \subseteq DOMAIN updated[id]
                     THEN "response" ELSE "raised"]

\* the ids of incidents that were never created
UnknownIds == {MaxStored + 1}

InitPatch ==
    /\ storage = <<>>
    /\ embeddings = <<>>
    /\ resolved_incidents_cache = Nothing
    /\ cache_timestamp = Nothing
    /\ llm_client = FALSE
    /\ rag_force_all = FALSE
    /\ now = 0
    /\ last = Idle
    /\ hist = NoHistory(storage)
    /\ threads = [t \in Threads |-> IdleFrame]
    /\ lineage = Fresh

\* IncidentRepository.create for the next incident
PutIncident ==
    LET id == Cardinality(DOMAIN storage \ UnknownIds) + 1
    IN  /\ id <= MaxStored
        /\ storage' = put_item(storage, IncidentData(id))
        /\ last' = Idle
        /\ UNCHANGED <<embeddings, resolved_incidents_cache, cache_timestamp, now, hist, llm_client, rag_force_all, threads, lineage>>

\* update_incident(id, {status}): the status code of the answer
PatchIncident(id, status) ==
    LET r == dynamo_update(storage, id, status)
    IN  /\ storage' = r.table
        /\ last' = [op |-> "update_incident", id |-> id,
                    existed |-> id \in DOMAIN storage,
                    before |-> storage,
                    code |-> IF r.outcome = "raised" THEN 500 ELSE 200]
        /\ UNCHANGED <<embeddings, resolved_incidents_cache, cache_timestamp, now, hist, llm_client, rag_force_all, threads, lineage>>

NextPatch ==
    \/ PutIncident
    \/ \E id \in (1..MaxStored) \cup UnknownIds, s \in IncidentStatus :
            PatchIncident(id, s)

SpecPatch == InitPatch /\ [][NextPatch]_vars

----------------------------------------------------------------------------
(* The severity rule applied to texts put together from a few phrases *)

\* phrases of incident texts: some hold a P1 keyword, some a P2 keyword, one
\* holds both, one holds none
Phrases ==
    {\* "System Down"
     <<"S", "y", "s", "t", "e", "m", " ", "D", "o", "w", "n">>,
     \* "Payroll is SLOW"
     <<"P", "a", "y", "r", "o", "l", "l", " ", "i", "s", " ", "S", "L", "O", "W">>,
     \* "download timeout"
     <<"d", "o", "w", "n", "l", "o", "a", "d", " ", "t", "i", "m", "e", "o", "u", "t">>,
     \* "report for some users"
     <<"r", "e", "p", "o", "r", "t", " ", "f", "o", "r", " ", "s", "o", "m", "e", " ", "u", "s", "e", "r", "s">>,
     \* "invoice mismatch"
     <<"i", "n", "v", "o", "i", "c", "e", " ", "m", "i", "s", "m", "a", "t", "c", "h">>,
     \* "URGENT"
     <<"U", "R", "G", "E", "N", "T">>}

RECURSIVE Joined(_)
\* ' '.join(phrases)
Joined(phrases) ==
    IF phrases = <<>> THEN <<>>
    ELSE IF Len(phrases) = 1 THEN Head(phrases)
    ELSE Head(phrases) \o <<" ">> \o Joined(Tail(phrases))

\* the texts of one to MaxPhrases phrases (a description has a character at
\* least)
Texts == {Joined(ps) : ps \in UNION {[1..n -> Phrases] : n \in 1..MaxPhrases}}

InitSeverity ==
    /\ storage = <<>>
    /\ embeddings = <<>>
    /\ resolved_incidents_cache = Nothing
    /\ cache_timestamp = Nothing
    /\ llm_client = FALSE
    /\ rag_force_all = FALSE
    /\ now = 0
    /\ last \in {[op |-> "incident", incident |-> [title |-> t, description |-> d]] :
                    t \in Phrases, d \in Texts}
    /\ hist = NoHistory(storage)
    /\ threads = [t \in Threads |-> IdleFrame]
    /\ lineage = Fresh

\* EnrichmentService.determine_severity(incident)
DetermineSeverity ==
    /\ last.op = "incident"
    /\ last' = [op |-> "determine_severity", incident |-> last.incident,
                result |-> determine_severity(last.incident)]
    /\ UNCHANGED <<storage, embeddings, resolved_incidents_cache, cache_timestamp, now, hist, llm_client, rag_force_all, threads, lineage>>

NextSeverity == DetermineSeverity

SpecSeverity == InitSeverity /\ [][NextSeverity]_vars

----------------------------------------------------------------------------
(* enrich_incident over a store whose incidents change status as the clock   *)
(* runs: the embedding provider answers, with the same vector each time, in  *)
(* no time or in a minute, and the store answers                             *)

\* the attempts of a provider that returns the vector q
AttemptsOf(q) == {[embedding |-> Some(q), storeOk |-> TRUE]}

InitTrial ==
    /\ storage \in {st \in Stores : Len(st) <= MaxTrialStored}
    /\ embeddings \in UNION {[D -> TimedVecs] : D \in SUBSET DOMAIN storage}
    /\ resolved_incidents_cache = Nothing
    /\ cache_timestamp = Nothing
    /\ llm_client = FALSE
    /\ rag_force_all = FALSE
    /\ now = 0
    /\ last = Idle
    /\ hist = NoHistory(storage)
    /\ threads = [t \in Threads |-> IdleFrame]
    /\ lineage = Fresh

NextTrial ==
    \/ \E id \in 1..MaxTrialStored, s \in StatusInputs : Update(id, s)
    \/ \E i \in DOMAIN IncidentInputs, q \in TimedQueries, d \in 0..1 :
            \E a1 \in AttemptsOf(q) : EnrichBy(i, a1, AttemptsOf(q), d)
    \/ Advance

SpecTrial == InitTrial /\ [][NextTrial]_vars

(* The API handlers over the store and the index: routers/incidents.py.  The *)
(* handlers are coroutines without an await, so each runs to its end before  *)
(* the next starts; the clock is frozen                                      *)

\* enrich_incident(IncidentInputs[i]) at time t: what it leaves of the
\* candidate cache and what it returns; a1 and a2 are the first and the
\* second use of the retrieval path
enrich_incident(i, has_llm, force, st, emb, cache, ts, t, a1, a2) ==
    UNION {
        IF ~s.escalate
        THEN {[cache |-> s.cache, ts |-> s.ts,
               result |-> RuleTagged(RuleResults[i], "rule_based")]}
        ELSE {[cache |-> g.cache, ts |-> g.ts,
               result |-> after_rag(RuleResults[i], g)] :
                g \in LET a == IF s.trial = "skipped" THEN a1 ELSE a2
                      IN enrich_with_rag(RuleResults[i], has_llm, st, emb,
                                         s.cache, s.ts, t, a.embedding,
                                         a.storeOk, LLMOutcomes)} :
        s \in should_use_rag(IncidentInputs[i], RuleResults[i], force, st, emb,
                             cache, ts, t, a1.embedding, a1.storeOk)}

\* create_incident that stores the embedding whether repository.create
\* succeeded or not
create_incident_EmbedFirst(st, emb, e, createOk, embedding) ==
    LET id == Len(st) + 1
        data == [id |-> id, status |-> "open",
                 severity |-> e.result.severity,
                 category |-> e.result.category,
                 suggested_action |-> e.result.suggested_action.text]
    IN  [code |-> IF createOk THEN 201 ELSE 500,
         id |-> id,
         storage |-> IF createOk THEN repo_create(st, data) ELSE st,
         embeddings |-> IF embedding = Nothing THEN emb
                        ELSE add_embedding(emb, id, Get(embedding)),
         cache |-> IF embedding = Nothing THEN e.cache ELSE Nothing,
         embedded |-> embedding # Nothing]

\* create_incident after the enrichment e (lines 87-132): createOk is whether
\* repository.create returns, embedding what generate_incident_embedding
\* returns (Nothing: it raises).  The id is the next of the store.
create_incident(st, emb, e, createOk, embedding) ==
    LET id == Len(st) + 1
        data == [id |-> id, status |-> "open",
                 severity |-> e.result.severity,
                 category |-> e.result.category,
                 suggested_action |-> e.result.suggested_action.text]
    IN  IF ~createOk
        THEN [code |-> 500, id |-> id, storage |-> st, embeddings |-> emb,
              cache |-> e.cache, embedded |-> FALSE]
        ELSE IF embedding = Nothing
        THEN [code |-> 201, id |-> id, storage |-> repo_create(st, data),
              embeddings |-> emb, cache |-> e.cache, embedded |-> FALSE]
        ELSE [code |-> 201, id |-> id, storage |-> repo_create(st, data),
              embeddings |-> add_embedding(emb, id, Get(embedding)),
              cache |-> Nothing, embedded |-> TRUE]

\* get_similar_incidents(id, limit) at time t: the possible outcomes
get_similar_incidents(st, emb, cache, ts, t, id, limit, embedding, storeOk) ==
    IF id \notin DOMAIN st
    THEN {[code |-> 404, embeddings |-> emb, cache |-> cache, ts |-> ts,
           embedded |-> FALSE, results |-> <<>>]}
    ELSE LET stored == get_embedding(emb, id)
         IN  IF stored = Nothing /\ embedding = Nothing
             THEN {[code |-> 500, embeddings |-> emb, cache |-> cache, ts |-> ts,
                    embedded |-> FALSE, results |-> <<>>]}
             ELSE LET vec == IF stored # Nothing THEN Get(stored) ELSE Get(embedding)
                      emb2 == IF stored # Nothing THEN emb
                              ELSE add_embedding(emb, id, vec)
                      cache2 == IF stored # Nothing THEN cache ELSE Nothing
                  IN  {[code |-> IF r.raised THEN 500 ELSE 200,
                        embeddings |-> emb2, cache |-> r.cache, ts |-> r.ts,
                        embedded |-> stored = Nothing,
                        results |-> r.results] :
                            r \in find_similar(st, emb2, cache2, ts, t, storeOk,
                                               vec, limit, "resolved")}

\* the ids a request may name: those the store may hold, and one more
ApiIds == 1..(MaxStored + 1)

\* the uses of the retrieval path by a request
ApiAttempts ==
    {[embedding |-> Nothing, storeOk |-> TRUE]}
    \cup {[embedding |-> Some(q), storeOk |-> ok] : q \in TimedQueries, ok \in BOOLEAN}

InitApi ==
    /\ storage = <<>>
    /\ embeddings = <<>>
    /\ resolved_incidents_cache = Nothing
    /\ cache_timestamp = Nothing
    /\ llm_client = FALSE
    /\ rag_force_all = FALSE
    /\ now = 0
    /\ last = Idle
    /\ hist = NoHistory(storage)
    /\ threads = [t \in Threads |-> IdleFrame]
    /\ lineage = Fresh

\* POST /api/incidents with IncidentInputs[i]
CreateIncident(i, a1, a2, createOk, embedding) ==
    /\ Len(storage) < MaxStored
    /\ \E e \in enrich_incident(i, llm_client, rag_force_all, storage, embeddings,
                                resolved_incidents_cache, cache_timestamp, now,
                                a1, a2) :
        LET c == create_incident(storage, embeddings, e, createOk, embedding)
        IN  /\ storage' = c.storage
            /\ embeddings' = c.embeddings
            /\ resolved_incidents_cache' = c.cache
            /\ cache_timestamp' = e.ts
            /\ last' = [op |-> "create_incident", id |-> c.id, code |-> c.code,
                        embedded |-> c.embedded]
    /\ UNCHANGED <<now, hist, llm_client, rag_force_all, threads, lineage>>

\* PATCH /api/incidents/{id} with a status
UpdateIncident(id, status) ==
    /\ storage' = repo_update(storage, id, status)
    /\ last' = [op |-> "update_incident", id |-> id,
                code |-> IF id \in DOMAIN storage THEN 200 ELSE 404,
                embedded |-> FALSE]
    /\ UNCHANGED <<embeddings, resolved_incidents_cache, cache_timestamp, now, hist, llm_client, rag_force_all, threads, lineage>>

\* GET /api/incidents/{id}/similar
GetSimilarIncidents(id, limit, embedding, storeOk) ==
    /\ \E r \in get_similar_incidents(storage, embeddings, resolved_incidents_cache,
                                      cache_timestamp, now, id, limit, embedding,
                                      storeOk) :
        /\ embeddings' = r.embeddings
        /\ resolved_incidents_cache' = r.cache
        /\ cache_timestamp' = r.ts
        /\ last' = [op |-> "get_similar_incidents", id |-> id, code |-> r.code,
                    embedded |-> r.embedded]
    /\ UNCHANGED <<storage, now, hist, llm_client, rag_force_all, threads, lineage>>

NextApi ==
    \/ \E i \in DOMAIN IncidentInputs, a1 \in ApiAttempts,
          createOk \in BOOLEAN, embedding \in {a.embedding : a \in ApiAttempts} :
            \* the second use of the retrieval path goes as the first, or the
            \* provider fails
            \E a2 \in {a1, [embedding |-> Nothing, storeOk |-> TRUE]} :
                CreateIncident(i, a1, a2, createOk, embedding)
    \/ \E id \in ApiIds, s \in StatusInputs : UpdateIncident(id, s)
    \/ \E id \in ApiIds, l \in Limits, a \in ApiAttempts :
            GetSimilarIncidents(id, l, a.embedding, a.storeOk)

SpecApi == InitApi /\ [][NextApi]_vars

----------------------------------------------------------------------------
(* Properties *)

\* the call that last returned is a find_similar that did not raise
Found == last.op = "find_similar" /\ ~last.raised

\* similarity of the i-th candidate of the last find_similar to its query
SimOf(i) == cosine_similarity(last.query, embeddings[last.candidates[i].id])

\* the candidates of the last find_similar that reach the threshold
Qualifying == {i \in 1..Len(last.candidates) : SimOf(i) >= min_similarity}

\* position in the candidate list of the j-th result of the last find_similar
PosOf(j) ==
    CHOOSE i \in 1..Len(last.candidates) : last.candidates[i] = last.results[j].incident

\* C4: a find_similar(status=resolved) call does not query the Incident Store
\* when a resolved lookup captured the candidate list less than 5 minutes
\* earlier and no add or remove happened since; it queries the store when the
\* capture is more than 5 minutes old or an add or remove happened since.
C4_CacheReuse ==
    [][(last'.op = "find_similar" /\ last'.status = "resolved") =>
        /\ (/\ hist.captured_at # Nothing
            /\ now - Get(hist.captured_at) < CacheTTL
            /\ ~hist.dirty) => ~last'.queried
        /\ (\/ hist.captured_at # Nothing /\ now - Get(hist.captured_at) > CacheTTL
            \/ hist.dirty) => last'.queried]_vars

\* a resolved lookup answered from a cache captured some minutes earlier
C4_Witness ==
    /\ Found
    /\ last.status = "resolved"
    /\ ~last.queried
    /\ last.results # <<>>
    /\ hist.captured_at # Nothing
    /\ now > Get(hist.captured_at)

\* C6: find_similar returns exactly the min(limit, k) best of the k candidates
\* at or above the 0.7 threshold, best first: no score below the threshold, no
\* more than limit results, no qualifying candidate passed over for a worse one.
C6_TopK ==
    Found =>
        LET R == last.results
            picked == {PosOf(j) : j \in 1..Len(R)}
        IN  /\ Len(R) = Min(last.limit, Cardinality(Qualifying))
            /\ \A j \in 1..Len(R) :
                /\ \E i \in Qualifying : last.candidates[i] = R[j].incident
                /\ R[j].score = SimOf(PosOf(j))
                /\ R[j].score >= min_similarity
            /\ Cardinality(picked) = Len(R)
            /\ \A j, k \in 1..Len(R) : j < k => R[j].score >= R[k].score
            /\ \A i \in Qualifying \ picked : \A j \in 1..Len(R) : R[j].score >= SimOf(i)

\* a lookup whose limit cuts into three qualifying candidates, one of them
\* exactly at the threshold
C6_Witness ==
    /\ Found
    /\ Cardinality(Qualifying) = 3
    /\ Len(last.results) = 2
    /\ \E i \in Qualifying : SimOf(i) = min_similarity
    /\ last.results[1].score > last.results[2].score

\* C7: candidates of equal similarity come out in retrieval order, and the one
\* retrieved earlier is the one kept when limit cuts between them.
C7_StableTies ==
    Found =>
        LET R == last.results
            picked == {PosOf(j) : j \in 1..Len(R)}
        IN  /\ \A j, k \in 1..Len(R) :
                (j < k /\ R[j].score = R[k].score) => PosOf(j) < PosOf(k)
            /\ \A i \in Qualifying \ picked : \A j \in 1..Len(R) :
                R[j].score = SimOf(i) => PosOf(j) < i

\* the call that last returned is enrich_incident
Enriched == last.op = "enrich"

\* the Rule Classifier's result for the incident of the last enrich_incident
RuleOfLast == RuleResults[last.incident]

ResultFields ==
    {"severity", "category", "summary", "suggested_action", "enrichment_method",
     "similar_incidents"}

\* C1: enrich_incident is total: whatever the embedding provider, the lookup
\* and the LLM do, what the call hands its caller is a result with all six
\* fields (never an exception), a severity and a category of the enums, and a
\* method among rule_based, rule_based_fallback and rag.
C1_Total ==
    Enriched =>
        /\ DOMAIN last.result = ResultFields
        /\ last.result.severity \in Severity
        /\ last.result.category \in Category
        /\ last.result.enrichment_method \in {"rule_based", "rule_based_fallback", "rag"}

\* an enrichment whose trial lookup found a neighbor and whose retrieval then
\* raised, and one whose LLM answered
C1_Witness ==
    /\ Enriched
    /\ \/ last.trial = "done" /\ last.rag = "raised"
       \/ last.llm = "ok"
    /\ llm_client

\* C2: when the Routing Policy escalates and the Retrieval-Augmented
\* Classifier raises, the result is the rule result unchanged, tagged
\* rule_based_fallback, with no similar incidents.
C2_FallbackOnRaise ==
    (Enriched /\ last.escalated /\ last.rag = "raised") =>
        last.result = [severity |-> RuleOfLast.severity,
                       category |-> RuleOfLast.category,
                       summary |-> RuleOfLast.summary,
                       suggested_action |-> RuleOfLast.suggested_action,
                       enrichment_method |-> "rule_based_fallback",
                       similar_incidents |-> <<>>]

\* an escalation by the Unknown rule whose retrieval raised
C2_Witness ==
    /\ Enriched
    /\ last.escalated
    /\ last.trial = "skipped"
    /\ last.rag = "raised"
    /\ RuleOfLast.category = "Unknown"

C8_NoNeighbors ==
    (Enriched /\ last.escalated /\ last.rag = "done" /\ last.neighbors = <<>>) =>
        last.result = [severity |-> RuleOfLast.severity,
                       category |-> RuleOfLast.category,
                       summary |-> RuleOfLast.summary,
                       suggested_action |-> RuleOfLast.suggested_action,
                       enrichment_method |-> "rule_based",
                       similar_incidents |-> <<>>]

\* an escalation by the neighbor rule whose second lookup found nothing
C8_Witness ==
    /\ Enriched
    /\ last.escalated
    /\ last.trial = "done"
    /\ last.rag = "done"
    /\ last.neighbors = <<>>

\* C9: with the force flag off, a known rule category and a description of at
\* least 50 characters, a failure during the trial lookup means no escalation:
\* the rule result comes back tagged rule_based with no similar incidents.
C9_TrialFailure ==
    (/\ Enriched
     /\ ~rag_force_all
     /\ RuleOfLast.category # "Unknown"
     /\ Len(IncidentInputs[last.incident].description) >= min_description_length
     /\ last.trial = "raised") =>
        /\ ~last.escalated
        /\ last.rag = "skipped"
        /\ last.result.enrichment_method = "rule_based"
        /\ last.result.similar_incidents = <<>>
        /\ last.result.severity = RuleOfLast.severity
        /\ last.result.category = RuleOfLast.category
        /\ last.result.summary = RuleOfLast.summary
        /\ last.result.suggested_action = RuleOfLast.suggested_action

\* a trial lookup that raised over an index holding a resolved incident
C9_Witness ==
    /\ Enriched
    /\ ~rag_force_all
    /\ last.trial = "raised"
    /\ \E id \in DOMAIN embeddings :
        id \in DOMAIN storage /\ storage[id].status = "resolved"

\* C10: the Routing Policy escalates whenever the rule category is Unknown,
\* and decides so before any trial lookup.
C10_UnknownEscalates ==
    (Enriched /\ RuleOfLast.category = "Unknown") =>
        last.escalated /\ last.trial = "skipped"

\* an Unknown incident with a long description, the force flag off
C10_Witness ==
    /\ Enriched
    /\ ~rag_force_all
    /\ RuleOfLast.category = "Unknown"
    /\ Len(IncidentInputs[last.incident].description) >= min_description_length
    /\ last.escalated

\* C5: under any interleaving of concurrent find_similar, add and remove
\* calls, the cache field never holds a candidate list that was computed from
\* the embedding map as it stood before an add or remove that has since
\* returned.
C5_Serialized == resolved_incidents_cache # Nothing => ~lineage.stale

\* C11: the Routing Policy escalates, without a trial lookup, whenever the
\* description has fewer than 50 characters; with exactly 50 characters (force
\* flag off, category known) the trial lookup runs and alone decides.
C11_ShortEscalates ==
    Enriched =>
        LET n == Len(IncidentInputs[last.incident].description)
        IN  /\ n < min_description_length =>
                last.escalated /\ last.trial = "skipped"
            /\ (/\ n = min_description_length
                /\ ~rag_force_all
                /\ RuleOfLast.category # "Unknown") =>
                /\ last.trial # "skipped"
                /\ last.escalated <=> (last.trial = "done" /\ last.trial_found > 0)

\* a 49-character description of known category, escalated with the force
\* flag off over an empty index
C11_Witness ==
    /\ Enriched
    /\ ~rag_force_all
    /\ Len(IncidentInputs[last.incident].description) = min_description_length - 1
    /\ RuleOfLast.category # "Unknown"
    /\ embeddings = <<>>
    /\ last.escalated

\* C12: with a description of at least 50 characters, a known category and
\* the force flag off, a trial lookup that returns no neighbor means no
\* escalation.
C12_NoNeighborNoEscalation ==
    (/\ Enriched
     /\ Len(IncidentInputs[last.incident].description) >= min_description_length
     /\ RuleOfLast.category # "Unknown"
     /\ ~rag_force_all
     /\ last.trial = "done"
     /\ last.trial_found = 0) =>
        ~last.escalated /\ last.result.enrichment_method = "rule_based"

\* a trial lookup that ran over an index holding a resolved incident and found
\* nothing close enough
C12_Witness ==
    /\ Enriched
    /\ ~rag_force_all
    /\ last.trial = "done"
    /\ last.trial_found = 0
    /\ ~last.escalated
    /\ \E id \in DOMAIN embeddings :
        id \in DOMAIN storage /\ storage[id].status = "resolved"

\* the classification that last returned is one by vote over neighbors
Voted == last.op = "classify" /\ last.llm = "skipped" /\ last.neighbors # <<>>

\* the values of a field among the neighbors of the last classification
ValuesOf(field) ==
    {last.neighbors[i].incident[field] : i \in 1..Len(last.neighbors)}

\* v is the value of the field with the largest sum of similarity scores and,
\* among the values of that sum, the one met first in the neighbor list
WinsVote(field, v) ==
    /\ v \in ValuesOf(field)
    /\ \A w \in ValuesOf(field) \ {v} :
        \/ WeightOf(last.neighbors, field, v) > WeightOf(last.neighbors, field, w)
        \/ /\ WeightOf(last.neighbors, field, v) = WeightOf(last.neighbors, field, w)
           /\ FirstAt(last.neighbors, field, v) < FirstAt(last.neighbors, field, w)

\* C13: the majority vote sums the similarity scores per severity and,
\* independently, per category, and selects for each the value of the largest
\* sum; among values of equal sum the one met first in the neighbor list wins.
C13_WeightedVote ==
    Voted =>
        /\ WinsVote("severity", last.result.severity)
        /\ WinsVote("category", last.result.category)

\* a vote with two severities of equal weight, and whose winning category is
\* not the category of the closest neighbor
C13_Witness ==
    /\ Voted
    /\ \E v, w \in ValuesOf("severity") :
        /\ v # w
        /\ WeightOf(last.neighbors, "severity", v) = WeightOf(last.neighbors, "severity", w)
    /\ last.result.category # last.neighbors[1].incident.category

\* positions of the last classification's neighbors that carry a suggested action
WithAction ==
    {i \in 1..Len(last.neighbors) : last.neighbors[i].incident.suggested_action # None}

\* number of neighbors whose suggested action is that of the i-th neighbor
Occurrences(i) ==
    Cardinality({j \in WithAction : last.neighbors[j].incident.suggested_action
                                        = last.neighbors[i].incident.suggested_action})

\* C14: in a rag result the suggested action is built from the action string
\* that occurs most often among the neighbors that have one and, among the
\* strings tied for most frequent, from the one that occurs first in the list.
C14_FirstMostFrequentAction ==
    (/\ last.op = "classify"
     /\ last.result.enrichment_method = "rag"
     /\ WithAction # {}) =>
        \E i \in WithAction :
            /\ \A j \in WithAction :
                \/ Occurrences(i) > Occurrences(j)
                \/ Occurrences(i) = Occurrences(j) /\ i <= j
                \/ last.neighbors[j].incident.suggested_action
                        = last.neighbors[i].incident.suggested_action
            /\ \A j \in WithAction :
                last.neighbors[j].incident.suggested_action
                    = last.neighbors[i].incident.suggested_action => i <= j
            /\ last.result.suggested_action
                    = Action(last.neighbors[i].incident.suggested_action,
                             Len(last.neighbors))

\* C18: a rag result lists as similar_incidents exactly the first min(3, n)
\* of its n neighbors, in their order, each with the neighbor's id, category,
\* severity and score; never more than 3, although all n neighbors vote.
C18_TopThreeAttached ==
    (last.op = "classify" /\ last.result.enrichment_method = "rag") =>
        LET attached == last.result.similar_incidents
        IN  /\ DOMAIN attached = 1..Min(3, Len(last.neighbors))
            /\ \A i \in DOMAIN attached :
                /\ attached[i].id = last.neighbors[i].incident.id
                /\ attached[i].category = last.neighbors[i].incident.category
                /\ attached[i].severity = last.neighbors[i].incident.severity
                /\ attached[i].similarity_score = last.neighbors[i].score

\* a rag result over four neighbors, the fourth of which is not listed and
\* turns the vote on the severity
C18_Witness ==
    /\ last.op = "classify"
    /\ last.result.enrichment_method = "rag"
    /\ Len(last.neighbors) = 4
    /\ Len(last.result.similar_incidents) = 3
    /\ last.result.severity = last.neighbors[4].incident.severity
    /\ last.result.severity
            # classify_by_majority_vote(SubSeq(last.neighbors, 1, 3), RuleOfLast).severity

\* C16: an embedded incident that has been resolved in the Incident Store
\* since time t is among the candidates of every find_similar(status=resolved)
\* call made later than t + 5 minutes, and among its results when its
\* similarity reaches the threshold and the limit leaves room; no add or
\* remove is needed for that.
C16_StalenessBounded ==
    (Found /\ last.status = "resolved") =>
        \A id \in DOMAIN hist.since :
            (HasEmbedding(embeddings, id) /\ now > hist.since[id] + CacheTTL) =>
                /\ \E i \in 1..Len(last.candidates) : last.candidates[i].id = id
                /\ (/\ cosine_similarity(last.query, embeddings[id]) >= min_similarity
                    /\ Cardinality(Qualifying) <= last.limit) =>
                        \E j \in 1..Len(last.results) : last.results[j].incident.id = id

\* a lookup that returns an incident resolved more than 5 minutes ago, after a
\* candidate list captured before the resolution
C16_Witness ==
    /\ Found
    /\ last.status = "resolved"
    /\ last.queried
    /\ \E id \in DOMAIN hist.since :
        /\ now > hist.since[id] + CacheTTL
        /\ \E j \in 1..Len(last.results) : last.results[j].incident.id = id
        /\ \E x \in DOMAIN storage : x # id /\ x \notin DOMAIN hist.since

\* C15 as stated: every incident returned by find_similar(status=resolved)
\* has status resolved in the Incident Store at the moment the call returns.
C15_ResolvedAtReturn ==
    (Found /\ last.status = "resolved") =>
        \A j \in 1..Len(last.results) :
            storage[last.results[j].incident.id].status = "resolved"

\* C15, amended: every incident returned by find_similar(status=resolved) was
\* resolved in the Incident Store when the candidate list the call used was
\* captured, which is during the call or less than 5 minutes before it; it
\* is resolved in the store at the return when the call captured the list.
C15_ResolvedWhenCaptured ==
    (Found /\ last.status = "resolved") =>
        /\ cache_timestamp # Nothing
        /\ now - Get(cache_timestamp) < CacheTTL
        /\ resolved_incidents_cache = Some(last.candidates)
        /\ \A i \in 1..Len(last.candidates) : last.candidates[i].status = "resolved"
        /\ \A j \in 1..Len(last.results) :
            /\ \E i \in 1..Len(last.candidates) :
                last.candidates[i] = last.results[j].incident
            /\ last.queried =>
                storage[last.results[j].incident.id].status = "resolved"

\* a lookup served from the captured list returns an incident that the store
\* has reopened since the capture
C15_Witness ==
    /\ Found
    /\ last.status = "resolved"
    /\ ~last.queried
    /\ \E j \in 1..Len(last.results) :
        /\ last.results[j].incident.status = "resolved"
        /\ storage[last.results[j].incident.id].status = "open"

\* C17: every incident returned by find_similar has an embedding in the index
\* at the time of the call, and an incident whose embedding was removed is
\* returned by no find_similar call until its embedding is added again,
\* whatever candidate list was captured before the removal.
C17_OnlyEmbedded ==
    Found =>
        \A j \in 1..Len(last.results) :
            /\ HasEmbedding(embeddings, last.results[j].incident.id)
            /\ last.results[j].incident.id \notin hist.removed

\* a resolved lookup that returns an incident and leaves out a resolved one
\* whose embedding was removed
C17_Witness ==
    /\ Found
    /\ last.status = "resolved"
    /\ Len(last.results) > 0
    /\ cache_timestamp # Nothing
    /\ \E id \in hist.removed \cap DOMAIN storage :
        /\ storage[id].status = "resolved"
        /\ \A j \in 1..Len(last.results) : last.results[j].incident.id # id

\* C19: a result of enrich_incident tagged rule_based or rule_based_fallback
\* has the severity, category, summary and suggested action of the Rule
\* Classifier's result for the incident and no similar incidents; the tag is
\* rule_based when the Routing Policy does not escalate.
C19_RuleTaggedIsRuleResult ==
    Enriched =>
        /\ last.result.enrichment_method \in {"rule_based", "rule_based_fallback"} =>
            /\ last.result.severity = RuleOfLast.severity
            /\ last.result.category = RuleOfLast.category
            /\ last.result.summary = RuleOfLast.summary
            /\ last.result.suggested_action = RuleOfLast.suggested_action
            /\ last.result.similar_incidents = <<>>
        /\ ~last.escalated => last.result.enrichment_method = "rule_based"

\* an enrichment left to the rules, with an LLM configured, although the
\* index holds a resolved incident
C19_Witness ==
    /\ Enriched
    /\ llm_client
    /\ ~last.escalated
    /\ last.trial = "done"
    /\ last.result.enrichment_method = "rule_based"
    /\ \E id \in DOMAIN embeddings :
        id \in DOMAIN storage /\ storage[id].status = "resolved"

\* the reply of the LLM names a severity or a category outside the enums
Malformed(answer) ==
    /\ answer # Nothing
    /\ Get(answer).severity \notin Severity \/ Get(answer).category \notin Category

\* C20: when the reply of the LLM does not name one of the 3 severities and
\* one of the 5 categories, enrich_incident returns what it returns when the
\* LLM call fails; the severity and the category of every result are members
\* of the enums.
C20_MalformedAsFailure ==
    Enriched =>
        /\ last.result.severity \in Severity
        /\ last.result.category \in Category
        /\ Malformed(last.reply) =>
            /\ last.llm = "failed"
            /\ last.result \in
                {g.result : g \in rag_results(last.neighbors, RuleOfLast,
                                              llm_client, Nothing)}

\* a reply with a category outside the enum, for an incident whose neighbors
\* vote for another severity than the Rule Classifier's
C20_Witness ==
    /\ Enriched
    /\ Malformed(last.reply)
    /\ Get(last.reply).category \notin Category
    /\ last.neighbors # <<>>
    /\ classify_by_majority_vote(last.neighbors, RuleOfLast).severity
            # RuleOfLast.severity

\* no incident of the Incident Store with the given status has an embedding
NoEmbeddedMatch(status) ==
    \A id \in DOMAIN storage :
        storage[id].status = status => ~HasEmbedding(embeddings, id)

\* C21 as stated: find_similar returns an empty list whenever no incident of
\* the Incident Store matching the status filter has an embedding.
C21_EmptyWhenDisjoint ==
    (Found /\ NoEmbeddedMatch(last.status)) => last.results = <<>>

\* C21, amended: find_similar raises only when its query of the Incident
\* Store raises; it returns an empty list whenever its candidate list is
\* empty, and the candidate list is empty whenever the call queried the store
\* and no incident matching the status filter has an embedding.  A resolved
\* lookup served from the cached list returns what that list holds.
C21_EmptyWhenNoCandidate ==
    last.op = "find_similar" =>
        /\ last.raised => last.queried
        /\ (~last.raised /\ last.candidates = <<>>) => last.results = <<>>
        /\ (~last.raised /\ last.queried /\ NoEmbeddedMatch(last.status)) =>
                last.candidates = <<>> /\ last.results = <<>>

\* a lookup that queried a store none of whose matching incidents is embedded,
\* while an incident of another status is
C21_Witness ==
    /\ Found
    /\ last.queried
    /\ NoEmbeddedMatch(last.status)
    /\ \E id \in DOMAIN storage :
        storage[id].status = last.status /\ ~HasEmbedding(embeddings, id)
    /\ \E id \in DOMAIN storage :
        storage[id].status # last.status /\ HasEmbedding(embeddings, id)

\* C22: a find_similar call with a status filter other than resolved queries
\* the Incident Store, takes as candidates the embedded incidents the store
\* holds with that status, and leaves the cached list and its capture
\* timestamp as they were.
C22_OtherStatusBypassesCache ==
    [][(last'.op = "find_similar" /\ last'.status # "resolved") =>
            /\ resolved_incidents_cache' = resolved_incidents_cache
            /\ cache_timestamp' = cache_timestamp
            /\ last'.queried
            /\ ~last'.raised =>
                last'.candidates =
                    SelectSeq(list_all(storage, last'.status),
                              LAMBDA inc : HasEmbedding(embeddings, inc.id))]_vars

\* a lookup of open incidents that returns one while the cache holds a list
\* of resolved incidents captured earlier
C22_Witness ==
    /\ Found
    /\ last.status = "open"
    /\ last.results # <<>>
    /\ resolved_incidents_cache # Nothing
    /\ Get(resolved_incidents_cache) # <<>>
    /\ cache_timestamp # Nothing
    /\ Get(cache_timestamp) < now

\* C23: get_embedding(id) returns the vector of the most recent add on id
\* when no remove on id followed it, and None otherwise; an add on an id that
\* has an embedding overwrites it, a remove on an id that has none changes
\* nothing.
C23_GetLatestAdd ==
    /\ last.op = "get_embedding" =>
        last.result =
            IF last.id \in DOMAIN hist.latest /\ hist.latest[last.id].op = "add"
            THEN hist.latest[last.id].vec
            ELSE Nothing
    /\ \A id \in DOMAIN hist.latest :
        HasEmbedding(embeddings, id) <=> hist.latest[id].op = "add"

\* get returns the vector of an add that overwrote an embedding, after a
\* remove on another id that had no embedding
C23_Witness ==
    /\ last.op = "get_embedding"
    /\ last.result # Nothing
    /\ hist.latest[last.id].present
    /\ Get(last.result) = Get(hist.latest[last.id].vec)
    /\ \E id \in DOMAIN hist.latest :
        hist.latest[id].op = "remove" /\ ~hist.latest[id].present

\* C24 as stated, for the DynamoDB-backed repository: updating an incident
\* whose id does not exist answers 404 and leaves the Incident Store as it was.
C24_UnknownIdNotFound ==
    (last.op = "update_incident" /\ ~last.existed) =>
        last.code = 404 /\ storage = last.before

\* the text of the incident of the last determine_severity holds a keyword of
\* the list, whatever the case of its letters
Matches(keywords) ==
    \E k \in 1..Len(keywords) :
        Contains(normalize_text(last.incident.title \o <<" ">>
                                \o last.incident.description), keywords[k])

\* C25: determine_severity gives P1 exactly when the text holds a P1 keyword,
\* whether or not it holds a P2 keyword; P2 exactly when it holds no P1
\* keyword and a P2 keyword; P3 exactly when it holds neither.
C25_P1Dominates ==
    last.op = "determine_severity" =>
        /\ last.result = "P1" <=> Matches(P1_KEYWORDS)
        /\ last.result = "P2" <=> (~Matches(P1_KEYWORDS) /\ Matches(P2_KEYWORDS))
        /\ last.result = "P3" <=> (~Matches(P1_KEYWORDS) /\ ~Matches(P2_KEYWORDS))

\* a P1 result for a text whose P2 keyword comes before its only P1 keyword
C25_Witness ==
    /\ last.op = "determine_severity"
    /\ last.result = "P1"
    /\ Matches(P2_KEYWORDS)
    /\ ~AnyKeyword(normalize_text(last.incident.title), P1_KEYWORDS)
    /\ AnyKeyword(normalize_text(last.incident.title), P2_KEYWORDS)

\* the Routing Policy decides on the force flag, the Unknown category or the
\* length of the description, for the incident of the last enrich_incident
DecidedByRule ==
    \/ rag_force_all
    \/ RuleOfLast.category = "Unknown"
    \/ Len(IncidentInputs[last.incident].description) < min_description_length

\* C26: an enrich_incident call invokes the embedding provider once, and
\* twice when the trial lookup decides the escalation; when the force flag is
\* set, the category is Unknown or the description is shorter than 50
\* characters, the Routing Policy makes no embedding call and no lookup; the
\* LLM classifier is called once at most.
C26_ProviderCalls ==
    Enriched =>
        /\ last.calls.embedding =
                IF ~DecidedByRule /\ last.trial_found > 0 THEN 2 ELSE 1
        /\ DecidedByRule =>
                last.calls.policy_embedding = 0 /\ last.calls.policy_lookup = 0
        /\ last.calls.llm <= 1

\* an enrichment escalated by its trial lookup, whose LLM was called, and
\* which invoked the embedding provider twice
C26_Witness ==
    /\ Enriched
    /\ ~DecidedByRule
    /\ last.escalated
    /\ last.calls.embedding = 2
    /\ last.calls.llm = 1

\* C27: a result of enrich_incident is tagged rag exactly when its
\* similar_incidents list is not empty, and a result tagged rag comes from a
\* lookup of the same call that returned a neighbor, whose first neighbors it
\* lists.
C27_RagIffNeighbors ==
    Enriched =>
        /\ last.result.enrichment_method = "rag"
                <=> last.result.similar_incidents # <<>>
        /\ last.result.enrichment_method = "rag" =>
            /\ last.rag = "done"
            /\ last.neighbors # <<>>
            /\ \A k \in 1..Len(last.result.similar_incidents) :
                last.result.similar_incidents[k].id = last.neighbors[k].incident.id

\* a result tagged rag that lists the two neighbors its lookup returned
C27_Witness ==
    /\ Enriched
    /\ last.result.enrichment_method = "rag"
    /\ Len(last.result.similar_incidents) = 2
    /\ Len(last.neighbors) = 2

\* the trial lookup of the last enrich_incident found a neighbor and
\* _enrich_with_rag did not raise
TrialFound ==
    /\ Enriched
    /\ last.trial = "done"
    /\ last.trial_found > 0
    /\ last.rag = "done"

\* C28 as stated: when the trial lookup finds a neighbor and the embedding
\* provider returns the same vector on both calls, the result is tagged rag.
C28_TrialImpliesRag ==
    TrialFound => last.result.enrichment_method = "rag"

\* the lookup of _enrich_with_rag in the last enrich_incident used the
\* candidate list the trial lookup used: it ran in the same minute, or the
\* list was captured before it ran
SameCandidateList ==
    last.took = 0 \/ (hist.captured_at # Nothing /\ Get(hist.captured_at) < now)

\* C28, amended: when the trial lookup finds a neighbor, the embedding
\* provider returns the same vector on both calls, and the classifier's
\* lookup uses the candidate list the trial lookup used, that lookup finds a
\* neighbor too and the result is tagged rag.
C28_TrialImpliesRagWhenCached ==
    (TrialFound /\ SameCandidateList) =>
        /\ last.neighbors # <<>>
        /\ last.result.enrichment_method = "rag"

\* a result tagged rag, a minute after a trial lookup served from a candidate
\* list that holds an incident the store has reopened
C28_Witness ==
    /\ TrialFound
    /\ SameCandidateList
    /\ last.took = 1
    /\ last.result.enrichment_method = "rag"
    /\ \E k \in 1..Len(last.neighbors) :
        storage[last.neighbors[k].incident.id].status = "open"

\* C29: after any sequence of create, update and get-similar requests, every
\* id with an embedding in the Similarity Index is the id of an incident of the
\* Incident Store; a create whose embedding generation fails leaves the
\* incident stored, open, without an embedding; and a request embeds an id
\* only if it answered 201 or did not answer 404.
C29_EmbeddedAreStored ==
    /\ DOMAIN embeddings \subseteq DOMAIN storage
    /\ (last.op = "create_incident" /\ last.code = 201 /\ ~last.embedded) =>
            /\ last.id \in DOMAIN storage
            /\ storage[last.id].status = "open"
            /\ last.id \notin DOMAIN embeddings
    /\ (last.op = "create_incident" /\ last.code = 500) =>
            last.id \notin DOMAIN storage \cup DOMAIN embeddings
    /\ (last.op = "get_similar_incidents" /\ last.code = 404) => ~last.embedded

\* a create has stored an incident without an embedding, beside an incident
\* that has one
C29_Witness ==
    /\ last.op = "create_incident"
    /\ last.code = 201
    /\ ~last.embedded
    /\ last.id \in DOMAIN storage
    /\ DOMAIN embeddings # {}

\* C30: when find_similar runs concurrently with remove, every candidate whose
\* embedding find_similar is about to read from the map (line 162, after the
\* test of line 161) is still in the map, and no find_similar call ends in a
\* missing-key error.
C30_NoMissingKey ==
    /\ \A t \in Threads :
            At(t, "scan_read") =>
                HasEmbedding(embeddings, threads[t].candidates[threads[t].k].id)
    /\ ~(last.op = "find_similar" /\ last.raised)

====
